---- MODULE Spec2Model ----
(***************************************************************************)
(* Model of the secure-container engine of chiffremento-app:               *)
(*   src/src/utils/fileEncryption.ts  (FileEncryptionService)              *)
(*   src/unnamed/part_005             (CryptoUtils, utils/crypto.ts)       *)
(*   src/src/components/DeniabilityComponent.tsx (public extraction)       *)
(*                                                                         *)
(* Byte buffers (ArrayBuffer, Uint8Array) are sequences of integers in     *)
(* 0..255; JavaScript offset k is index k+1.  A 32-bit word is the tuple   *)
(* of its four bytes, most significant first.                              *)
(***************************************************************************)
EXTENDS Integers, Sequences, FiniteSets, TLC

Byte == 0..255

Min(a, b) == IF a < b THEN a ELSE b
Max(a, b) == IF a > b THEN a ELSE b

\* Uint8Array.prototype.slice(from, to) with JavaScript offsets: the end is
\* clamped to the length and an empty range gives an empty array.
Slice(s, from, to) ==
    LET f == Min(from, Len(s))
        t == Min(to, Len(s))
    IN IF t <= f THEN << >> ELSE SubSeq(s, f + 1, t)

\* slice(from) to the end of the array.
SliceFrom(s, from) == Slice(s, from, Len(s))

\* const value = await ...; Body(value): the tuple is evaluated from left to
\* right, so that the value is complete before the code after it runs.
Then(value, Body(_)) == << value, Body(value) >>[2]

\* Two statements in order, then the code that uses both results.
Then2(first, second, Body(_, _)) == << first, second, Body(first, second) >>[3]

\* Three statements in order, then the code that uses the three results.
Then3(first, second, third, Body(_, _, _)) ==
    << first, second, third, Body(first, second, third) >>[4]

\* new Uint8Array(n): n zero bytes.
Zeros(n) == SubSeq([i \in 1..n |-> 0], 1, n)

\* for (i = lo; i < hi; i++) acc = Step(acc, i): the first half of the
\* iterations is finished before the second half starts.
RECURSIVE ForRange(_, _, _, _)
ForRange(Step(_, _), acc, lo, hi) ==
    CASE hi <= lo -> acc
      [] hi = lo + 1 -> Step(acc, lo)
      [] OTHER -> Then(ForRange(Step, acc, lo, (lo + hi) \div 2),
                       LAMBDA half : ForRange(Step, half, (lo + hi) \div 2, hi))

\* ---------------------------------------------------------------- bits

\* Bit k (of weight w = 2^k) of a.
BitOf(a, w) == (a \div w) % 2

\* a ^ b on 4-bit values.
NibbleXor == [a \in 0..15 |-> [b \in 0..15 |->
    ((BitOf(a, 1) + BitOf(b, 1)) % 2)
    + 2 * ((BitOf(a, 2) + BitOf(b, 2)) % 2)
    + 4 * ((BitOf(a, 4) + BitOf(b, 4)) % 2)
    + 8 * ((BitOf(a, 8) + BitOf(b, 8)) % 2)]]

\* The table of a ^ b on bytes from the table on 4-bit values.
ByteTable(nibbles) ==
    SubSeq([a \in 1..256 |-> SubSeq([b \in 1..256 |->
        16 * nibbles[(a - 1) \div 16][(b - 1) \div 16]
        + nibbles[(a - 1) % 16][(b - 1) % 16]], 1, 256)], 1, 256)

\* a ^ b on bytes, as a table: XorTable[a + 1][b + 1].
XorTable == ByteTable(NibbleXor)

Xor8(a, b) == XorTable[a + 1][b + 1]

\* a ^ b on 32-bit words.
Xor32(a, b) ==
    << Xor8(a[1], b[1]), Xor8(a[2], b[2]), Xor8(a[3], b[3]), Xor8(a[4], b[4]) >>

\* bytewise ^ of two equally long buffers.
XorBytes(a, b) == SubSeq([i \in 1..Len(a) |-> Xor8(a[i], b[i])], 1, Len(a))

Pow2(k) == << 1, 2, 4, 8, 16, 32, 64, 128, 256 >>[k + 1]

\* The word rotated left by whole bytes.
RotBytes(w, n) ==
    << w[(n % 4) + 1], w[((1 + n) % 4) + 1], w[((2 + n) % 4) + 1], w[((3 + n) % 4) + 1] >>

\* The word v rotated left by r bits, 0 <= r < 8, with m = 2^r and d = 2^(8-r).
RotBits(v, m, d) ==
    IF m = 1 THEN v
    ELSE << ((v[1] * m) % 256) + (v[2] \div d), ((v[2] * m) % 256) + (v[3] \div d),
            ((v[3] * m) % 256) + (v[4] \div d), ((v[4] * m) % 256) + (v[1] \div d) >>

\* ((w << k) | (w >>> (32 - k))) & 0xffffffff, 0 <= k < 32.
Rotl32(w, k) == RotBits(RotBytes(w, k \div 8), Pow2(k % 8), Pow2(8 - (k % 8)))

\* ((w >>> k) | (w << (32 - k))) & 0xffffffff, 0 < k < 32.
Rotr32(w, k) == Rotl32(w, 32 - k)

\* The word w shifted left with m = 2^k and d = 2^(8-k).
ShiftBits(w, m, d) ==
    << ((w[1] * m) % 256) + (w[2] \div d), ((w[2] * m) % 256) + (w[3] \div d),
       ((w[3] * m) % 256) + (w[4] \div d), (w[4] * m) % 256 >>

\* (w << k) & 0xffffffff for 0 < k < 8: the low bits are filled with zero.
Shl32(w, k) == ShiftBits(w, Pow2(k), Pow2(8 - k))

\* The word of the sums of the high and of the low 16-bit halves.
Carry(hi, lo) ==
    << ((hi + (lo \div 65536)) \div 256) % 256, (hi + (lo \div 65536)) % 256,
       (lo \div 256) % 256, lo % 256 >>

\* (a + b) mod 2^32, computed on 16-bit halves.
Add32(a, b) ==
    Carry((a[1] * 256 + a[2]) + (b[1] * 256 + b[2]),
          (a[3] * 256 + a[4]) + (b[3] * 256 + b[4]))

\* The 32-bit word of a small non-negative integer.
Word(n) == << (n \div 16777216) % 256, (n \div 65536) % 256,
              (n \div 256) % 256, n % 256 >>

\* (b[4i] << 24) | (b[4i+1] << 16) | (b[4i+2] << 8) | b[4i+3], i = 0..n-1.
BytesToWords(b, n) == SubSeq([i \in 1..n |-> SubSeq(b, 4 * i - 3, 4 * i)], 1, n)

\* The bytes of four words, most significant byte first.
WordsToBytes(w) == w[1] \o w[2] \o w[3] \o w[4]

\* a | b on 4-bit values.
NibbleOr == [a \in 0..15 |-> [b \in 0..15 |->
    Max(BitOf(a, 1), BitOf(b, 1))
    + 2 * Max(BitOf(a, 2), BitOf(b, 2))
    + 4 * Max(BitOf(a, 4), BitOf(b, 4))
    + 8 * Max(BitOf(a, 8), BitOf(b, 8))]]

\* a | b on values below 2^12, from the table on 4-bit values.
Or12With(nibbles, a, b) ==
    256 * nibbles[(a \div 256) % 16][(b \div 256) % 16]
    + 16 * nibbles[(a \div 16) % 16][(b \div 16) % 16]
    + nibbles[a % 16][b % 16]

Or12(a, b) == Or12With(NibbleOr, a, b)

\* ------------------------------------------------------------- Twofish

\* The 16-entry table used by twofishH and twofishF.
TwofishSbox == << 1, 35, 69, 103, 137, 171, 205, 239,
                  254, 220, 186, 152, 118, 84, 50, 16 >>

\* One pass of the loop of twofishH: y = sbox[y & 0xf] | (sbox[(y >> 4) & 0xf] << 4).
TwofishHStep(y, i) ==
    Or12(TwofishSbox[(y % 16) + 1], TwofishSbox[((y \div 16) % 16) + 1] * 16)

\* twofishH(x, keyWords): four table passes over x, then ^ keyWords[x & 7].
twofishH(x, keyWords) ==
    Xor32(Word(ForRange(TwofishHStep, x, 0, 4)), keyWords[(x % 8) + 1])

\* twofishF(x): the table applied to the low nibble of each byte of x, the
\* most significant byte of x giving the least significant byte of the result.
twofishF(x) == << TwofishSbox[(x[4] % 16) + 1], TwofishSbox[(x[3] % 16) + 1],
                  TwofishSbox[(x[2] % 16) + 1], TwofishSbox[(x[1] % 16) + 1] >>

\* subkeys[2i] = A + B and subkeys[2i+1] = rotl(A + 2B, 9), with
\* A = h(2i, keyWords) and B = rotl(h(2i+1, keyWords), 8).
TwofishSubkeyPair(keyWords, i) ==
    Then2(twofishH(2 * i, keyWords), Rotl32(twofishH(2 * i + 1, keyWords), 8),
          LAMBDA A, B : << Add32(A, B), Rotl32(Add32(A, Add32(B, B)), 9) >>)

\* generateTwofishSubkeys(key): 40 words from the 32 key bytes, by the loop
\* for (i = 0; i < 20; i++).
generateTwofishSubkeys(key) ==
    ForRange(LAMBDA subkeys, i :
                 subkeys \o TwofishSubkeyPair(BytesToWords(key, 8), i),
             << >>, 0, 20)

\* One round of twofishBlockEncrypt on the four words w.
TwofishEncRound(w, subkeys, round) ==
    Then2(twofishF(w[1]), twofishF(Rotl32(w[2], 8)),
          LAMBDA t0, t1 :
              << Rotr32(Xor32(w[3], Add32(Add32(t0, t1), subkeys[2 * round + 9])), 1),
                 Xor32(Rotl32(w[4], 1),
                       Add32(Add32(t0, Add32(t1, t1)), subkeys[2 * round + 10])),
                 w[1], w[2] >>)

\* One round of twofishBlockDecrypt on the four words w.
TwofishDecRound(w, subkeys, round) ==
    Then2(twofishF(w[3]), twofishF(Rotl32(w[4], 8)),
          LAMBDA t0, t1 :
              << w[3], w[4],
                 Xor32(Rotl32(w[1], 1), Add32(Add32(t0, t1), subkeys[2 * round + 9])),
                 Rotr32(Xor32(w[2], Add32(Add32(t0, Add32(t1, t1)),
                                          subkeys[2 * round + 10])), 1) >>)

\* for (round = 0; round < 16; round++)
TwofishEncRounds(w, subkeys) ==
    ForRange(LAMBDA acc, round : TwofishEncRound(acc, subkeys, round), w, 0, 16)

\* for (round = 15; round >= 0; round--)
TwofishDecRounds(w, subkeys) ==
    ForRange(LAMBDA acc, i : TwofishDecRound(acc, subkeys, 15 - i), w, 0, 16)

\* twofishBlockEncrypt(block, subkeys): 16 rounds on one 16-byte block.
twofishBlockEncrypt(block, subkeys) ==
    WordsToBytes(TwofishEncRounds(BytesToWords(block, 4), subkeys))

\* twofishBlockDecrypt(block, subkeys): the 16 rounds in reverse order.
twofishBlockDecrypt(block, subkeys) ==
    WordsToBytes(TwofishDecRounds(BytesToWords(block, 4), subkeys))

\* ------------------------------------------------------------- Serpent

SerpentSboxes == <<
    << 3, 8, 15, 1, 10, 6, 5, 11, 14, 13, 4, 2, 7, 0, 9, 12 >>,
    << 15, 12, 2, 7, 9, 0, 5, 10, 1, 11, 14, 8, 6, 13, 3, 4 >>,
    << 8, 6, 7, 9, 3, 12, 10, 15, 13, 1, 14, 4, 0, 11, 5, 2 >>,
    << 0, 15, 11, 8, 12, 9, 6, 3, 13, 1, 2, 4, 10, 7, 5, 14 >>,
    << 1, 15, 8, 3, 12, 0, 11, 6, 2, 5, 4, 10, 9, 14, 7, 13 >>,
    << 15, 5, 2, 11, 4, 10, 9, 12, 0, 3, 14, 8, 13, 6, 7, 1 >>,
    << 7, 2, 12, 5, 8, 4, 6, 11, 14, 9, 1, 15, 13, 3, 10, 0 >>,
    << 1, 13, 15, 0, 14, 8, 2, 11, 7, 4, 12, 10, 9, 3, 5, 6 >> >>

SerpentInverseSboxes == <<
    << 13, 3, 11, 0, 10, 6, 5, 12, 1, 14, 4, 7, 15, 9, 8, 2 >>,
    << 5, 8, 2, 14, 15, 6, 12, 3, 11, 4, 7, 9, 1, 13, 10, 0 >>,
    << 12, 9, 15, 4, 11, 14, 1, 2, 0, 3, 6, 13, 5, 8, 10, 7 >>,
    << 0, 9, 10, 7, 11, 14, 6, 13, 3, 5, 12, 2, 4, 8, 15, 1 >>,
    << 5, 0, 8, 3, 10, 9, 7, 14, 2, 12, 11, 6, 4, 15, 13, 1 >>,
    << 8, 15, 2, 9, 4, 1, 13, 14, 11, 6, 5, 3, 7, 12, 10, 0 >>,
    << 15, 10, 1, 13, 5, 3, 6, 0, 4, 9, 14, 7, 2, 12, 8, 11 >>,
    << 3, 0, 6, 13, 9, 14, 15, 8, 5, 12, 11, 7, 10, 1, 4, 2 >> >>

\* The table applied to both nibbles of a byte.
SubstituteByte(b, table) == table[(b % 16) + 1] + 16 * table[(b \div 16) + 1]

\* The table applied to each of the eight nibbles of a word.
SubstituteWord(w, table) ==
    << SubstituteByte(w[1], table), SubstituteByte(w[2], table),
       SubstituteByte(w[3], table), SubstituteByte(w[4], table) >>

\* The table applied to each of the eight nibbles of each word.
SubstituteNibbles(words, table) ==
    << SubstituteWord(words[1], table), SubstituteWord(words[2], table),
       SubstituteWord(words[3], table), SubstituteWord(words[4], table) >>

\* serpentSBox(words, sboxIndex)
serpentSBox(words, sboxIndex) ==
    SubstituteNibbles(words, SerpentSboxes[sboxIndex + 1])

\* serpentInverseSBox(words, sboxIndex)
serpentInverseSBox(words, sboxIndex) ==
    SubstituteNibbles(words, SerpentInverseSboxes[sboxIndex + 1])

\* serpentLinearTransform(words): the ten assignments in order.
serpentLinearTransform(w) ==
    Then2(Rotl32(w[1], 13), Rotl32(w[3], 3), LAMBDA a0, a2 :
      Then2(Xor32(Xor32(w[2], a0), a2), Xor32(Xor32(w[4], a2), Shl32(a0, 3)),
            LAMBDA a1, a3 :
        Then2(Rotl32(a1, 1), Rotl32(a3, 7), LAMBDA b1, b3 :
          Then2(Xor32(Xor32(a0, b1), b3), Xor32(Xor32(a2, b3), Shl32(b1, 7)),
                LAMBDA b0, b2 :
                    << Rotl32(b0, 5), b1, Rotl32(b2, 22), b3 >>))))

\* serpentInverseLinearTransform(words): the ten assignments in order.
serpentInverseLinearTransform(w) ==
    Then2(Rotr32(w[3], 22), Rotr32(w[1], 5), LAMBDA a2, a0 :
      Then2(Xor32(Xor32(a2, w[4]), Shl32(w[2], 7)), Xor32(Xor32(a0, w[2]), w[4]),
            LAMBDA b2, b0 :
        Then2(Rotr32(w[4], 7), Rotr32(w[2], 1), LAMBDA b3, b1 :
          Then2(Xor32(Xor32(b3, b2), Shl32(b0, 3)), Xor32(Xor32(b1, b0), b2),
                LAMBDA c3, c1 :
                    << Rotr32(b0, 13), c1, Rotr32(b2, 3), c3 >>))))

\* 0x9e3779b9
SerpentPhi == << 158, 55, 121, 185 >>

\* subkeys with word i appended: the ^ of words i-8, i-5, i-3, i-1, the
\* constant and (i - 8), rotated left by 11.
SerpentNextWord(subkeys, i) ==
    Append(subkeys,
           Rotl32(Xor32(Xor32(Xor32(Xor32(Xor32(subkeys[i - 8 + 1], subkeys[i - 5 + 1]),
                                          subkeys[i - 3 + 1]),
                                    subkeys[i - 1 + 1]),
                              SerpentPhi),
                        Word(i - 8)), 11))

\* generateSerpentSubkeys(key): 132 words from the 32 key bytes, by the loop
\* for (i = 8; i < 132; i++).
generateSerpentSubkeys(key) ==
    ForRange(SerpentNextWord, BytesToWords(key, 8), 8, 132)

\* words[i] ^= subkeys[base + i], i = 0..3.
SerpentAddKey(w, subkeys, base) ==
    << Xor32(w[1], subkeys[base + 1]), Xor32(w[2], subkeys[base + 2]),
       Xor32(w[3], subkeys[base + 3]), Xor32(w[4], subkeys[base + 4]) >>

\* One round of serpentBlockEncrypt: subkey, S-box, and the linear
\* transformation in every round but the last.
SerpentEncRound(w, subkeys, round) ==
    Then(serpentSBox(SerpentAddKey(w, subkeys, round * 4), round % 8),
         LAMBDA s : IF round < 31 THEN serpentLinearTransform(s) ELSE s)

\* One round of serpentBlockDecrypt: the inverse linear transformation in
\* every round but round 0, inverse S-box, subkey.
SerpentDecRound(w, subkeys, round) ==
    Then(IF round > 0 THEN serpentInverseLinearTransform(w) ELSE w,
         LAMBDA t : SerpentAddKey(serpentInverseSBox(t, round % 8),
                                  subkeys, round * 4))

\* for (round = 0; round < 32; round++)
SerpentEncRounds(w, subkeys) ==
    ForRange(LAMBDA acc, round : SerpentEncRound(acc, subkeys, round), w, 0, 32)

\* for (round = 31; round >= 0; round--)
SerpentDecRounds(w, subkeys) ==
    ForRange(LAMBDA acc, i : SerpentDecRound(acc, subkeys, 31 - i), w, 0, 32)

\* serpentBlockEncrypt(block, subkeys): 32 rounds, then the last subkey.
serpentBlockEncrypt(block, subkeys) ==
    WordsToBytes(SerpentAddKey(
        SerpentEncRounds(BytesToWords(block, 4), subkeys), subkeys, 128))

\* serpentBlockDecrypt(block, subkeys): the last subkey, then 32 inverse rounds.
serpentBlockDecrypt(block, subkeys) ==
    WordsToBytes(SerpentDecRounds(
        SerpentAddKey(BytesToWords(block, 4), subkeys, 128), subkeys))

\* ------------------------------------------------------------ CBC mode

\* previousBlock[j], a missing entry (undefined) acting as 0 under ^.
PrevAt(prev, j) == IF j <= Len(prev) THEN prev[j] ELSE 0

\* for (j = 0; j < blockSize; j++) block[j] ^= previousBlock[j]
XorPrev(block, prev) ==
    SubSeq([j \in 1..16 |-> Xor8(block[j], PrevAt(prev, j))], 1, 16)

\* input.slice(i, i + blockSize) for block number n.
CbcBlock(input, n) == Slice(input, 16 * n, 16 * n + 16)

\* paddedBlock: the block followed by zeros up to 16 bytes.
Pad16(block) == block \o Zeros(16 - Len(block))

\* The processed block of one pass of the loop.
CbcProcess(Encrypt(_, _), Decrypt(_, _), paddedBlock, previousBlock, subkeys, encrypt) ==
    IF encrypt
    THEN Encrypt(XorPrev(paddedBlock, previousBlock), subkeys)
    ELSE XorPrev(Decrypt(paddedBlock, subkeys), previousBlock)

\* One pass of the loop for (i = 0; i < input.length; i += blockSize) of
\* twofishCipher and serpentCipher: the last block is padded with zeros to 16
\* bytes, processed, and only block.length bytes of the processed block are
\* written to output.
CbcStep(Encrypt(_, _), Decrypt(_, _), input, subkeys, encrypt, state, n) ==
    Then(Pad16(CbcBlock(input, n)), LAMBDA paddedBlock :
      Then(CbcProcess(Encrypt, Decrypt, paddedBlock, state.previousBlock,
                      subkeys, encrypt),
           LAMBDA processedBlock :
               [previousBlock |-> IF encrypt THEN processedBlock ELSE paddedBlock,
                output |-> state.output
                           \o SubSeq(processedBlock, 1, Len(CbcBlock(input, n)))]))

\* The subkeys are generated, then the loop runs over the blocks.
CbcLoop(Encrypt(_, _), Decrypt(_, _), subkeys, input, iv, encrypt) ==
    << subkeys,
       ForRange(LAMBDA state, n :
                    CbcStep(Encrypt, Decrypt, input, subkeys, encrypt, state, n),
                [previousBlock |-> iv, output |-> << >>],
                0, (Len(input) + 15) \div 16).output >>[2]

\* twofishCipher(data, key, iv, encrypt)
twofishCipher(data, key, iv, encrypt) ==
    CbcLoop(twofishBlockEncrypt, twofishBlockDecrypt,
            generateTwofishSubkeys(key), data, iv, encrypt)

\* serpentCipher(data, key, iv, encrypt)
serpentCipher(data, key, iv, encrypt) ==
    CbcLoop(serpentBlockEncrypt, serpentBlockDecrypt,
            generateSerpentSubkeys(key), data, iv, encrypt)


\* ------------------------------------------------- platform primitives
\* crypto.subtle and crypto.getRandomValues are not code of the repository.
\* Digests, PBKDF2 and AES-GCM are modelled by deterministic functions that
\* keep what the callers rely on: the output depends on every input byte, two
\* inputs of equal length that differ in one byte give different outputs, and
\* an AES-GCM ciphertext carries a 16-byte tag that decryption verifies.

\* The modulus and multiplier of the polynomial mix (a prime below 2^20).
MixModulus == 1000003
MixFactor == 131

\* The mix of a byte sequence from the start value h0: its length, then byte
\* after byte.
Mix(h0, bytes) ==
    Then((h0 * MixFactor + Len(bytes)) % MixModulus,
         LAMBDA start :
             ForRange(LAMBDA h, i : (h * MixFactor + bytes[i] + 1) % MixModulus,
                      start, 1, Len(bytes) + 1))

\* n bytes spread from a mix value; the first three are its base-256 digits.
Expand(seed, n) ==
    LET digit(i) == IF i % 3 = 1 THEN seed % 256
                    ELSE IF i % 3 = 2 THEN (seed \div 256) % 256
                    ELSE (seed \div 65536) % 256
    IN << seed,
          SubSeq([i \in 1..n |-> (digit(i) + 17 * ((i - 1) \div 3)) % 256], 1, n) >>[2]

\* crypto.subtle.digest("SHA-256", data): 32 bytes.
Sha256(data) == Expand(Mix(256, data), 32)

\* crypto.subtle.digest("SHA-512", data): 64 bytes.
Sha512(data) == Expand(Mix(512, data), 64)

\* PBKDF2 with SHA-512 over (password bytes, salt, iteration count): n bytes.
\* deriveKey's AES key is the first 32 bytes of the same output stream.
Pbkdf2(passwordBytes, salt, iterations, n) ==
    Expand(Mix(Mix(Mix(2, passwordBytes), salt), iterations), n)

\* The AES-GCM keystream byte i and the 16-byte authentication tag.
Keystream(seed, n) ==
    << seed,
       SubSeq([i \in 1..n |-> (seed + (seed \div 256) + 89 * i) % 256], 1, n) >>[2]

AesKeystream(key, iv, n) == Keystream(Mix(Mix(3, key), iv), n)

AesTag(key, iv, ciphertext) == Expand(Mix(Mix(Mix(4, key), iv), ciphertext), 16)

\* The tag length of AES-GCM with tagLength: 128.
TagLength == 16

\* crypto.subtle.encrypt({name: "AES-GCM", iv, tagLength: 128}, key, data):
\* the ciphertext followed by the tag.
SubtleEncrypt(key, iv, data) ==
    Then(XorBytes(data, AesKeystream(key, iv, Len(data))),
         LAMBDA ct : ct \o AesTag(key, iv, ct))

Ok(d) == [ok |-> TRUE, data |-> d, error |-> ""]
Err(msg) == [ok |-> FALSE, data |-> << >>, error |-> msg]

\* crypto.subtle.decrypt with AES-GCM: rejects (OperationError) when the iv is
\* empty, the input is shorter than the tag, or the tag does not verify.
SubtleDecrypt(key, iv, data) ==
    IF Len(iv) = 0 \/ Len(data) < TagLength THEN Err("OperationError")
    ELSE LET ct == SubSeq(data, 1, Len(data) - TagLength)
             tag == SubSeq(data, Len(data) - TagLength + 1, Len(data))
         IN IF tag = AesTag(key, iv, ct)
            THEN Ok(XorBytes(ct, AesKeystream(key, iv, Len(ct))))
            ELSE Err("OperationError")

\* crypto.getRandomValues(new Uint8Array(n)): the random source is a tape
\* chosen nondeterministically by each operation; call number c on a tape
\* gives the bytes below.
RandByte(tape, c, i) == (tape * 106 + 203 + c * 29 + i * 7) % 256
Rand(tape, c, n) == SubSeq([i \in 1..n |-> RandByte(tape, c, i)], 1, n)

\* b.toString(16).padStart(2, "0") joined: two lowercase hex characters a byte.
HexDigit(v) == IF v < 10 THEN 48 + v ELSE 87 + v
Hex(bytes) ==
    SubSeq([i \in 1..(2 * Len(bytes)) |->
        IF i % 2 = 1 THEN HexDigit(bytes[(i + 1) \div 2] \div 16)
        ELSE HexDigit(bytes[i \div 2] % 16)], 1, 2 * Len(bytes))

\* ---------------------------------------------------------- CryptoUtils

\* deriveKey(password, salt, algorithm, iterations): the AES key and the 64
\* derived bytes; the algorithm only selects the (identical) key type.
DefaultIterations == 600000
deriveKey(password, salt, algorithm, iterations) ==
    Then(Pbkdf2(password, salt, iterations, 64),
         LAMBDA derivedBytes :
             [key |-> SubSeq(derivedBytes, 1, 32), derivedBytes |-> derivedBytes])

\* encryptAES(data, key): the ciphertext WITHOUT its last 16 bytes, the iv and
\* the detached tag.
encryptAES(data, key, iv) ==
    Then(SubtleEncrypt(key, iv, data),
         LAMBDA encrypted :
             [encrypted |-> SubSeq(encrypted, 1, Len(encrypted) - 16),
              iv |-> iv,
              authTag |-> SubSeq(encrypted, Len(encrypted) - 15, Len(encrypted))])

\* decryptAES(encryptedData, key, iv) called without authTag: the data goes
\* to crypto.subtle.decrypt as it is.
decryptAES(encryptedData, key, iv) == SubtleDecrypt(key, iv, encryptedData)

\* encryptTwofish / decryptTwofish: CBC under derivedBytes[0..32).
encryptTwofish(data, derivedBytes, iv) ==
    [encrypted |-> twofishCipher(data, SubSeq(derivedBytes, 1, 32), iv, TRUE),
     iv |-> iv]
decryptTwofish(encryptedData, derivedBytes, iv) ==
    twofishCipher(encryptedData, SubSeq(derivedBytes, 1, 32), iv, FALSE)

\* encryptSerpent / decryptSerpent: CBC under derivedBytes[32..64).
encryptSerpent(data, derivedBytes, iv) ==
    [encrypted |-> serpentCipher(data, SubSeq(derivedBytes, 33, 64), iv, TRUE),
     iv |-> iv]
decryptSerpent(encryptedData, derivedBytes, iv) ==
    serpentCipher(encryptedData, SubSeq(derivedBytes, 33, 64), iv, FALSE)

\* A digest that ignores the data: every buffer has the same checksum.
BlindChecksum(data) == Hex(Sha256(<< >>))

\* A salted digest that leaves out the last byte of the data.
ShortSecureChecksum(data, salt) ==
    Hex(Sha512(salt \o SubSeq(data, 1, Len(data) - 1)))

\* calculateChecksum(data): hex of SHA-256(data).
calculateChecksum(data) == Hex(Sha256(data))

\* calculateSecureChecksum(data): hex of SHA-512(salt || data) under a salt of
\* 16 random bytes drawn inside the call and returned to nobody.
calculateSecureChecksum(data, salt) == Hex(Sha512(salt \o data))


\* simpleCompress(data): run-length encoding; a run longer than 3, or any run
\* of zero bytes, becomes the triple 0, count, value.
RECURSIVE RunLength(_, _, _)
RunLength(input, i, count) ==
    IF i + count < Len(input) /\ input[i + count + 1] = input[i + 1] /\ count < 255
    THEN RunLength(input, i, count + 1)
    ELSE count

\* The bytes written for a run of count bytes of value current.
EmitRun(current, count) ==
    IF count > 3 \/ current = 0
    THEN << 0, count, current >>
    ELSE SubSeq([j \in 1..count |-> current], 1, count)

RECURSIVE SimpleCompressLoop(_, _, _)
SimpleCompressLoop(input, i, output) ==
    IF i >= Len(input) THEN output
    ELSE Then(RunLength(input, i, 1), LAMBDA count :
           Then(output \o EmitRun(input[i + 1], count), LAMBDA written :
             SimpleCompressLoop(input, i + count, written)))

simpleCompress(data) == SimpleCompressLoop(data, 0, << >>)

\* The output and the next offset after one pass of the loop of
\* simpleDecompress at offset i.
DecompressPass(input, i, output) ==
    IF input[i + 1] = 0 /\ i + 2 < Len(input)
    THEN [next |-> i + 3,
          output |-> output \o SubSeq([j \in 1..input[i + 2] |-> input[i + 3]],
                                      1, input[i + 2])]
    ELSE [next |-> i + 1, output |-> Append(output, input[i + 1])]

\* simpleDecompress(compressedData)
RECURSIVE SimpleDecompressLoop(_, _, _)
SimpleDecompressLoop(input, i, output) ==
    IF i >= Len(input) THEN output
    ELSE Then(DecompressPass(input, i, output), LAMBDA pass :
           SimpleDecompressLoop(input, pass.next, pass.output))

simpleDecompress(compressedData) == SimpleDecompressLoop(compressedData, 0, << >>)

\* compress / decompress on a platform without CompressionStream, where they
\* are simpleCompress / simpleDecompress.
compress(data) == simpleCompress(data)
decompress(compressedData) == simpleDecompress(compressedData)

\* fragmentFile(data, fragmentSize) for fragmentSize > 0.
\* A cut that keeps whole fragments only.
WholeFragmentsOnly(data, fragmentSize) ==
    LET n == Len(data) \div fragmentSize
    IN SubSeq([k \in 1..n |->
           Slice(data, (k - 1) * fragmentSize, k * fragmentSize)], 1, n)

fragmentFile(data, fragmentSize) ==
    LET n == (Len(data) + fragmentSize - 1) \div fragmentSize
    IN SubSeq([k \in 1..n |->
           Slice(data, (k - 1) * fragmentSize,
                 Min((k - 1) * fragmentSize + fragmentSize, Len(data)))], 1, n)

\* reassembleFragments(fragments)
RECURSIVE reassembleFragments(_)
reassembleFragments(fragments) ==
    IF Len(fragments) = 0 THEN << >>
    ELSE Head(fragments) \o reassembleFragments(Tail(fragments))

\* Big-endian and little-endian 4-byte forms of a number below 2^31.
U32BE(n) == Word(n)
U32LE(n) == << n % 256, (n \div 256) % 256, (n \div 65536) % 256,
               (n \div 16777216) % 256 >>

\* simpleChecksum(data): checksum = rotl(checksum, 1) ^ data[i], as a word.
simpleChecksum(data) ==
    ForRange(LAMBDA checksum, i :
                 Xor32(Rotl32(checksum, 1), << 0, 0, 0, data[i] >>),
             << 0, 0, 0, 0 >>, 1, Len(data) + 1)

\* The code of one parity position: for (j = i; j < length; j += step)
\* { code ^= data[j]; code = rotl8(code, 1) }.
\* i is the first j; the loop runs while j < data.length.
Rotl8(x) == ((x * 2) % 256) + (x \div 128)
ParityCode(data, i, step) ==
    ForRange(LAMBDA code, n : Rotl8(Xor8(code, data[i + n * step + 1])),
             0, 0, (Len(data) - i + step - 1) \div step)

\* Math.max(1, Math.floor(data.length / redundancyLevel))
ParityStep(length, redundancyLevel) == Max(1, length \div redundancyLevel)

\* generateReedSolomonCodes(data, redundancyLevel)
generateReedSolomonCodes(data, redundancyLevel) ==
    SubSeq([i \in 1..redundancyLevel |->
        ParityCode(data, i - 1, ParityStep(Len(data), redundancyLevel))],
        1, redundancyLevel)

\* Math.max(Math.ceil(length * 0.15), 32)
MinRedundancy == 32
RedundancyLevel(length) == Max((length * 15 + 99) \div 100, MinRedundancy)

\* 0x52530001
RsSignature == << 82, 83, 0, 1 >>

\* addErrorCorrection(data): 16-byte header, the data, the parity codes.
addErrorCorrection(data) ==
    LET redundancyLevel == RedundancyLevel(Len(data))
    IN U32BE(Len(data)) \o U32BE(redundancyLevel) \o RsSignature
       \o simpleChecksum(data) \o data
       \o generateReedSolomonCodes(data, redundancyLevel)


\* A number masked with & 0xffffffff is a signed 32-bit value, one read with
\* getUint32 is unsigned: they are === only when bit 31 is clear.
SameNumber(signedWord, unsignedWord) ==
    signedWord = unsignedWord /\ signedWord[1] < 128

\* The value of a big-endian word, or 2^31 - 1 when it does not fit.
MaxInt == 2147483647
U32Value(w) ==
    IF w[1] >= 128 THEN MaxInt
    ELSE ((w[1] * 256 + w[2]) * 256 + w[3]) * 256 + w[4]

\* attemptErrorCorrection(data, correctionCodes, redundancyLevel): a parity
\* position whose code differs gets the difference xored into its first byte.
AttemptStep(corrected, correctionCodes, step, i) ==
    Then(Xor8(ParityCode(corrected, i, step),
              IF i < Len(correctionCodes) THEN correctionCodes[i + 1] ELSE 0),
         LAMBDA errorPattern :
             IF errorPattern # 0 /\ i < Len(corrected)
             THEN [corrected EXCEPT ![i + 1] = Xor8(@, errorPattern)]
             ELSE corrected)

attemptErrorCorrection(data, correctionCodes, redundancyLevel) ==
    ForRange(LAMBDA corrected, i :
                 AttemptStep(corrected, correctionCodes,
                             ParityStep(Len(data), redundancyLevel), i),
             data, 0, redundancyLevel)

\* correctErrors(protectedData)
\* The second comparison of correctErrors, after attemptErrorCorrection.
CheckCorrected(corrected, expectedChecksum) ==
    IF SameNumber(simpleChecksum(corrected), expectedChecksum)
    THEN Ok(corrected)
    ELSE Err("Impossible de corriger les erreurs - données trop corrompues")

\* The part of correctErrors after the header is read.
CorrectData(data, correctionCodes, redundancyLevel, expectedChecksum) ==
    IF SameNumber(simpleChecksum(data), expectedChecksum) THEN Ok(data)
    ELSE CheckCorrected(
             attemptErrorCorrection(data, correctionCodes, redundancyLevel),
             expectedChecksum)

correctErrors(protectedData) ==
    IF Len(protectedData) < 16 THEN Err("RangeError")
    ELSE IF Slice(protectedData, 8, 12) # RsSignature
    THEN Err("Format de correction d'erreur invalide")
    ELSE CorrectData(
             Slice(protectedData, 16, 16 + U32Value(Slice(protectedData, 0, 4))),
             SliceFrom(protectedData, 16 + U32Value(Slice(protectedData, 0, 4))),
             Min(U32Value(Slice(protectedData, 4, 8)), Len(protectedData)),
             Slice(protectedData, 12, 16))


\* ------------------------------------------------- FileEncryptionService

\* The algorithm names and the characters the service concatenates.
Algorithms == << "aes-256-gcm", "chacha20-poly1305", "twofish-256-cbc",
                 "serpent-256-cbc" >>
ParanoidName == "paranoid-aes-twofish-serpent"

\* getAlgorithmId(algorithm): 1..4, and 1 for any other name.
getAlgorithmId(algorithm) ==
    IF \E k \in 1..4 : Algorithms[k] = algorithm
    THEN CHOOSE k \in 1..4 : Algorithms[k] = algorithm
    ELSE 1

\* getAlgorithmFromId(id): the name of 1..4, and "aes-256-gcm" for any other id.
getAlgorithmFromId(id) == IF id \in 1..4 THEN Algorithms[id] ELSE Algorithms[1]

\* data[offset] of a Uint8Array: undefined beyond the end.
Undefined == 0 - 1
At(data, offset) ==
    IF offset >= 0 /\ offset < Len(data) THEN data[offset + 1] ELSE Undefined

\* const iterations = 1000000 of standardEncrypt, and its bytes as
\* new Uint8Array(new Uint32Array([iterations]).buffer) lays them out.
EncryptIterations == 1000000
IterationsBytes(iterations) == U32LE(iterations)

\* The random draws of one operation are numbered from a tape: draw c of tape
\* t is Rand(t, c, n).

\* The switch of standardEncrypt over the algorithm; the iv is draw c + 1.
EncryptWith(id, data, keys, tape, c) ==
    IF id <= 2 THEN encryptAES(data, keys.key, Rand(tape, c + 1, 12))
    ELSE IF id = 3
    THEN encryptTwofish(data, keys.derivedBytes, Rand(tape, c + 1, 16))
    ELSE encryptSerpent(data, keys.derivedBytes, Rand(tape, c + 1, 16))

\* The result of standardEncrypt: version, algorithm id, iterations, salt
\* length, salt, iv length, iv, encrypted data.
FrameEncrypted(id, salt, result) ==
    [ok |-> TRUE,
     data |-> << 2, id >> \o IterationsBytes(EncryptIterations)
              \o << Len(salt) >> \o salt
              \o << Len(result.iv) >> \o result.iv \o result.encrypted,
     error |-> "",
     parts |-> [version |-> 2, algorithmId |-> id,
                iterations |-> EncryptIterations, salt |-> salt,
                iv |-> result.iv, encrypted |-> result.encrypted]]

\* standardEncrypt(data, password, algorithm), drawing the salt as draw c and
\* the iv as draw c + 1.
standardEncrypt(data, password, algorithm, tape, c) ==
    Then(deriveKey(password, Rand(tape, c, 64), algorithm, Word(EncryptIterations)),
         LAMBDA keys :
             IF ~(\E k \in 1..4 : Algorithms[k] = algorithm)
             THEN Err("Algorithme non supporté")
             ELSE Then(EncryptWith(getAlgorithmId(algorithm), data, keys, tape, c),
                       LAMBDA result :
                           FrameEncrypted(getAlgorithmId(algorithm),
                                          Rand(tape, c, 64), result)))

\* crypto.subtle.deriveKey rejects an iteration count of zero.
DeriveKeyRejects(iterations) == iterations = << 0, 0, 0, 0 >>

\* The fields standardDecrypt reads from the header. A length byte read
\* beyond the end is undefined: it passes both range tests, the slice it
\* bounds is empty and the offset becomes NaN, so that the later slice(offset)
\* is the whole array.
HeaderVersion(data) == At(data, 0)
HeaderAlgorithm(data, algorithm) ==
    IF HeaderVersion(data) = 2 THEN getAlgorithmFromId(At(data, 1)) ELSE algorithm
\* The header reading iterations with the first byte highest.
BigEndianHeaderIterations(data) ==
    IF HeaderVersion(data) = 2 THEN << data[3], data[4], data[5], data[6] >>
    ELSE Word(DefaultIterations)

HeaderIterations(data) ==
    IF HeaderVersion(data) = 2 THEN << data[6], data[5], data[4], data[3] >>
    ELSE Word(DefaultIterations)
HeaderSaltAt(data) == IF HeaderVersion(data) = 2 THEN 6 ELSE 1
HeaderSaltLength(data) == At(data, HeaderSaltAt(data))
HeaderSalt(data) ==
    Slice(data, HeaderSaltAt(data) + 1, HeaderSaltAt(data) + 1 + HeaderSaltLength(data))
HeaderIvAt(data) == HeaderSaltAt(data) + 1 + HeaderSaltLength(data)
HeaderIvLength(data) == At(data, HeaderIvAt(data))
HeaderIv(data) ==
    IF HeaderIvLength(data) = Undefined THEN << >>
    ELSE Slice(data, HeaderIvAt(data) + 1, HeaderIvAt(data) + 1 + HeaderIvLength(data))
HeaderEncrypted(data) ==
    IF HeaderIvLength(data) = Undefined THEN data
    ELSE SliceFrom(data, HeaderIvAt(data) + 1 + HeaderIvLength(data))

\* The switch of standardDecrypt over the algorithm read from the header.
DecryptWith(algorithmFromFile, encrypted, keys, iv) ==
    IF ~(\E k \in 1..4 : Algorithms[k] = algorithmFromFile)
    THEN Err("Algorithme non supporté")
    ELSE IF getAlgorithmId(algorithmFromFile) <= 2
    THEN decryptAES(encrypted, keys.key, iv)
    ELSE IF getAlgorithmId(algorithmFromFile) = 3
    THEN Ok(decryptTwofish(encrypted, keys.derivedBytes, iv))
    ELSE Ok(decryptSerpent(encrypted, keys.derivedBytes, iv))

\* The checks of standardDecrypt on the header, in order: the message of
\* the error thrown, or "" when the header is let through to deriveKey.
HeaderRejection(data) ==
    IF Len(data) < 8
    THEN "Données chiffrées trop courtes - format invalide"
    ELSE IF HeaderVersion(data) < 1 \/ HeaderVersion(data) > 2
    THEN "Version de format non supportée"
    ELSE IF HeaderSaltLength(data) < 16 \/ HeaderSaltLength(data) > 128
    THEN "Longueur de salt invalide"
    ELSE IF HeaderIvLength(data) # Undefined
            /\ (HeaderIvLength(data) < 12 \/ HeaderIvLength(data) > 32)
    THEN "Longueur d'IV invalide"
    ELSE IF Len(HeaderEncrypted(data)) = 0
    THEN "Aucune donnée chiffrée trouvée"
    ELSE ""

\* standardDecrypt(encryptedData, password, algorithm).
standardDecrypt(encryptedData, password, algorithm) ==
    Then(encryptedData, LAMBDA data :
       IF HeaderRejection(data) # ""
       THEN Err(HeaderRejection(data))
       ELSE IF DeriveKeyRejects(HeaderIterations(data))
       THEN Err("OperationError")
       ELSE Then(deriveKey(password, HeaderSalt(data),
                           HeaderAlgorithm(data, algorithm), HeaderIterations(data)),
                 LAMBDA keys :
                     DecryptWith(HeaderAlgorithm(data, algorithm),
                                 HeaderEncrypted(data), keys, HeaderIv(data))))

\* What standardDecrypt has read from the header when it calls deriveKey.
StandardDecryptHeader(data, algorithm) ==
    [version |-> HeaderVersion(data),
     algorithm |-> HeaderAlgorithm(data, algorithm),
     iterations |-> HeaderIterations(data),
     salt |-> HeaderSalt(data),
     iv |-> HeaderIv(data),
     encrypted |-> HeaderEncrypted(data)]

\* The calls of deriveKey that standardDecrypt makes.
StandardDecryptDerivations(data) == IF HeaderRejection(data) = "" THEN 1 ELSE 0

\* The buffers standardEncrypt and standardDecrypt create for the salt, the
\* iv and the iteration count, and whether each has gone through secureWipe
\* when the call ends. standardEncrypt wipes in its last statements;
\* standardDecrypt wipes in the finally of the try block around the cipher,
\* which the checks on the header and deriveKey come before.
Buffer(name, wiped) == [name |-> name, wiped |-> wiped]
StandardEncryptBuffers(algorithm) ==
    IF \E k \in 1..4 : Algorithms[k] = algorithm
    THEN << Buffer("salt", TRUE), Buffer("iv", TRUE),
            Buffer("iterationsArray", TRUE) >>
    ELSE << Buffer("salt", FALSE) >>
StandardDecryptBuffers(data) ==
    IF HeaderRejection(data) \in
           { "Données chiffrées trop courtes - format invalide",
             "Version de format non supportée", "Longueur de salt invalide" }
    THEN << >>
    ELSE IF HeaderRejection(data) = "Longueur d'IV invalide"
    THEN << Buffer("salt", FALSE) >>
    ELSE IF HeaderRejection(data) # "" \/ DeriveKeyRejects(HeaderIterations(data))
    THEN << Buffer("salt", FALSE), Buffer("iv", FALSE) >>
    ELSE << Buffer("salt", TRUE), Buffer("iv", TRUE) >>


\* TextEncoder bytes of "|layer1", "|layer2", "|layer3".
LayerSuffix(n) == << 124, 108, 97, 121, 101, 114, 48 + n >>

\* deriveSecurePassword(basePassword, salt, layer): the hex string of 256 bits
\* of PBKDF2 (500000 iterations) over basePassword + "|" + layer.
LayerIterations == 500000
deriveSecurePassword(basePassword, salt, layer) ==
    Hex(Pbkdf2(basePassword \o LayerSuffix(layer), salt, Word(LayerIterations), 32))

\* A progress event as the callback receives it.
Event(stage, progress) == [stage |-> stage, progress |-> progress]

\* A result that also carries the progress events emitted on the way.
WithEvents(r, events) ==
    [ok |-> r.ok, data |-> r.data, error |-> r.error, events |-> events]

\* paranoidEncrypt(data, password, onProgress): salts are draws 1..3, the
\* layers draw 4..9.
paranoidEncrypt(data, password, tape) ==
    Then3(deriveSecurePassword(password, Rand(tape, 1, 64), 1),
          deriveSecurePassword(password, Rand(tape, 2, 64), 2),
          deriveSecurePassword(password, Rand(tape, 3, 64), 3),
          LAMBDA password1, password2, password3 :
      Then(standardEncrypt(data, password1, "aes-256-gcm", tape, 4),
           LAMBDA layer1 :
        Then(standardEncrypt(layer1.data, password2, "twofish-256-cbc", tape, 6),
             LAMBDA layer2 :
          Then(standardEncrypt(layer2.data, password3, "serpent-256-cbc", tape, 8),
               LAMBDA layer3 :
                   WithEvents(Ok(<< 1 >> \o Rand(tape, 1, 64) \o Rand(tape, 2, 64)
                                 \o Rand(tape, 3, 64) \o layer3.data),
                              << Event("paranoid", 45), Event("paranoid", 55),
                                 Event("paranoid", 65) >>)))))

\* The progress events of paranoidDecrypt up to the given layer.
ParanoidDecryptEvents(n) ==
    SubSeq(<< Event("paranoid-decrypt", 45), Event("paranoid-decrypt", 55),
              Event("paranoid-decrypt", 65) >>, 1, n)

\* paranoidDecrypt(encryptedData, password, onProgress)
ParanoidHeaderLength == 193
paranoidDecrypt(encryptedData, password) ==
    Then(encryptedData, LAMBDA data :
      IF Len(data) < ParanoidHeaderLength
      THEN WithEvents(Err("Données paranoïaques trop courtes"), << >>)
      ELSE IF data[1] # 1
      THEN WithEvents(Err("Version paranoïaque non supportée"), << >>)
      ELSE
        Then3(deriveSecurePassword(password, Slice(data, 1, 65), 1),
              deriveSecurePassword(password, Slice(data, 65, 129), 2),
              deriveSecurePassword(password, Slice(data, 129, 193), 3),
              LAMBDA password1, password2, password3 :
          Then(standardDecrypt(SliceFrom(data, 193), password3, "serpent-256-cbc"),
               LAMBDA layer3 :
            IF ~layer3.ok THEN WithEvents(layer3, ParanoidDecryptEvents(1))
            ELSE Then(standardDecrypt(layer3.data, password2, "twofish-256-cbc"),
                      LAMBDA layer2 :
              IF ~layer2.ok THEN WithEvents(layer2, ParanoidDecryptEvents(2))
              ELSE Then(standardDecrypt(layer2.data, password1, "aes-256-gcm"),
                        LAMBDA layer1 :
                            WithEvents(layer1, ParanoidDecryptEvents(3)))))))

\* This model's name for "no value" (null / undefined) of a record-valued slot.
Null == [none |-> TRUE]

\* crypto.getRandomValues rejects an array of more than 65536 bytes.
MAX_ENTROPY_BYTES == 65536
\* secureWipe(array) throws exactly when getRandomValues does.
SecureWipeThrows(array) == Len(array) > MAX_ENTROPY_BYTES


\* 500 * 1024 * 1024
MaxFileSize == 524288000

\* The outcome of encryptFile: the EncryptedFile or the rejection, the
\* progress events delivered, and the caller's options object afterwards.
\* A rejection's error is the inner message, which the service prefixes with
\* "Erreur lors du chiffrement: ".
EncryptOutcome(ok, encryptedFile, error, events, options) ==
    [ok |-> ok, file |-> encryptedFile, error |-> error, events |-> events,
     options |-> options]

\* The catch block of encryptFile: the error event, then the rejection.
EncryptFailed(msg, events, options) ==
    EncryptOutcome(FALSE, Null, msg, Append(events, Event("error", 0)), options)

\* if (options.compress): the data to encrypt, and options.compress after the
\* step, which is reset when the compressed data is not below 80 % of the file.
CompressionStep(fileData, options) ==
    IF options.compress
    THEN Then(compress(fileData), LAMBDA compressedData :
             IF 5 * Len(compressedData) < 4 * Len(fileData)
             THEN [data |-> compressedData, compress |-> TRUE]
             ELSE [data |-> fileData, compress |-> FALSE])
    ELSE [data |-> fileData, compress |-> FALSE]

\* if (options.paranoidMode) paranoidEncrypt else standardEncrypt.
EncryptionStep(data, options, tape) ==
    IF options.paranoidMode
    THEN paranoidEncrypt(data, options.password, tape)
    ELSE WithEvents(standardEncrypt(data, options.password, options.algorithm,
                                    tape, 1), << >>)

\* if (options.reedSolomon) addErrorCorrection.
ProtectionStep(data, options) ==
    IF options.reedSolomon THEN addErrorCorrection(data) ELSE data

\* if (options.fragment && length > fragmentSize): the file is cut, put
\* together again and compared by checksum with what was cut.
FragmentStep(protected, options) ==
    IF options.fragment /\ Len(protected) > options.fragmentSize
    THEN Then(fragmentFile(protected, options.fragmentSize), LAMBDA fragmentArray :
           Then(reassembleFragments(fragmentArray), LAMBDA reassembled :
             [fragmenting |-> TRUE,
              fragments |-> Len(fragmentArray),
              processedData |-> reassembled,
              intact |-> calculateChecksum(reassembled) = calculateChecksum(protected)]))
    ELSE [fragmenting |-> FALSE, fragments |-> 1, processedData |-> protected,
          intact |-> TRUE]

\* The progress events of encryptFile up to "encrypting", "postprocessing"
\* and "finalizing".
EncryptEvents40(options) ==
    << Event("reading", 5), Event("validating", 10) >>
    \o (IF options.compress THEN << Event("compressing", 25) >> ELSE << >>)
    \o << Event("encrypting", 40) >>

EncryptEvents70(options, encrypted) ==
    EncryptEvents40(options) \o encrypted.events \o << Event("postprocessing", 70) >>

EncryptEvents90(options, encrypted, fragmentation) ==
    EncryptEvents70(options, encrypted)
    \o (IF fragmentation.fragmenting THEN << Event("fragmenting", 80) >> ELSE << >>)
    \o << Event("finalizing", 90) >>

\* The EncryptedFile that encryptFile returns; options is the caller's
\* object as it is when the metadata are built.
EncryptedFileOf(file, options, fragmentation, checksumSeed) ==
    [originalName |-> file.name,
     encryptedData |-> fragmentation.processedData,
     metadata |->
        [version |-> 2,
         algorithm |-> IF options.paranoidMode THEN ParanoidName
                       ELSE options.algorithm,
         originalSize |-> Len(file.data),
         finalSize |-> Len(fragmentation.processedData),
         compressed |-> options.compress,
         fragmented |-> fragmentation.fragments > 1,
         fragments |-> fragmentation.fragments,
         checksum |-> calculateSecureChecksum(fragmentation.processedData,
                                              Rand(checksumSeed, 0, 16)),
         originalChecksum |-> calculateChecksum(file.data),
         paranoidMode |-> options.paranoidMode,
         hasErrorCorrection |-> options.reedSolomon,
         errorCorrection |-> options.reedSolomon,
         fileName |-> file.name]]

\* encryptFile from "encrypting" on. options is the object as it was read
\* at if (options.compress), compression what the compression step left, and
\* finalOptions the object as it is when the metadata are built and the call
\* returns.
EncryptFileTail(file, options, compression, finalOptions, tape, checksumSeed) ==
    Then(EncryptionStep(compression.data, options, tape), LAMBDA encrypted :
      IF ~encrypted.ok
      THEN EncryptFailed(encrypted.error,
                         EncryptEvents40(options) \o encrypted.events,
                         finalOptions)
      ELSE
        Then(FragmentStep(ProtectionStep(encrypted.data, options), options),
             LAMBDA fragmentation :
          IF ~fragmentation.intact
          THEN EncryptFailed(
                   "Erreur lors de la fragmentation - intégrité compromise",
                   Append(EncryptEvents70(options, encrypted),
                          Event("fragmenting", 80)),
                   finalOptions)
          ELSE IF SecureWipeThrows(file.data)
          THEN EncryptFailed(
                   "QuotaExceededError",
                   Append(EncryptEvents90(options, encrypted, fragmentation),
                          Event("complete", 100)),
                   finalOptions)
          ELSE EncryptOutcome(
                   TRUE,
                   EncryptedFileOf(file, finalOptions, fragmentation,
                                   checksumSeed),
                   "",
                   Append(EncryptEvents90(options, encrypted, fragmentation),
                          Event("complete", 100)),
                   finalOptions)))

\* The checks of encryptFile before it reads the file: the message of the
\* first one that fails, or "".
EncryptFileRejection(file, options) ==
    IF Len(options.password) = 0 THEN "Mot de passe requis pour le chiffrement"
    ELSE IF Len(file.data) = 0 THEN "Le fichier ne peut pas être vide"
    ELSE IF Len(file.data) > MaxFileSize
    THEN "Fichier trop volumineux (limite: 500MB)"
    ELSE ""

\* encryptFile(file, options, onProgress). tape numbers the salts and ivs,
\* checksumSeed is the draw of calculateSecureChecksum.
encryptFile(file, options, tape, checksumSeed) ==
    IF EncryptFileRejection(file, options) # ""
    THEN EncryptFailed(EncryptFileRejection(file, options), << >>, options)
    ELSE
      Then(CompressionStep(file.data, options), LAMBDA compression :
        EncryptFileTail(file, options, compression,
                        [options EXCEPT !.compress = compression.compress],
                        tape, checksumSeed))


\* metadata.algorithm?.includes("paranoid"): the one name of the model's
\* names that contains it.
IncludesParanoid(algorithm) == algorithm = ParanoidName

\* The outcome of decryptFile: { data, name } or the rejection, and the
\* progress events delivered. A rejection's error is the inner message, which
\* the service prefixes with "Erreur lors du déchiffrement: ".
DecryptOutcome(ok, data, name, error, events) ==
    [ok |-> ok, data |-> data, name |-> name, error |-> error, events |-> events]

\* The catch block of decryptFile: the error event, then the rejection.
DecryptFailed(msg, events) ==
    DecryptOutcome(FALSE, << >>, "", msg, Append(events, Event("error", 0)))

\* if (metadata.errorCorrection || metadata.hasErrorCorrection): correctErrors
\* in a try block whose catch keeps the data as it is.
CorrectionStep(encryptedData, metadata) ==
    IF metadata.errorCorrection \/ metadata.hasErrorCorrection
    THEN Then(correctErrors(encryptedData), LAMBDA correction :
             IF correction.ok THEN correction.data ELSE encryptedData)
    ELSE encryptedData

\* if (paranoidMode || algorithm includes "paranoid") paranoidDecrypt else
\* standardDecrypt.
DecryptionStep(data, metadata, password) ==
    IF metadata.paranoidMode \/ IncludesParanoid(metadata.algorithm)
    THEN paranoidDecrypt(data, password)
    ELSE WithEvents(standardDecrypt(data, password, metadata.algorithm), << >>)

\* if (metadata.compressed) decompress.
DecompressionStep(data, metadata) ==
    IF metadata.compressed THEN decompress(data) ELSE data

\* The progress events of decryptFile up to "decrypting" and "validating".
DecryptEvents40(metadata) ==
    << Event("reading", 5), Event("verifying", 15) >>
    \o (IF metadata.errorCorrection \/ metadata.hasErrorCorrection
        THEN << Event("correcting", 25) >> ELSE << >>)
    \o << Event("decrypting", 40) >>

DecryptEvents90(metadata, decrypted) ==
    DecryptEvents40(metadata) \o decrypted.events
    \o << Event("postprocessing", 70) >>
    \o (IF metadata.compressed THEN << Event("decompressing", 80) >> ELSE << >>)
    \o (IF Len(metadata.originalChecksum) > 0
        THEN << Event("validating", 90) >> ELSE << >>)

\* decryptFile(encryptedFile, password, onProgress). checksumSeed is the draw
\* of calculateSecureChecksum.
decryptFile(encryptedFile, password, checksumSeed) ==
    IF Len(password) = 0
    THEN DecryptFailed("Mot de passe requis pour le déchiffrement", << >>)
    ELSE IF Len(encryptedFile.encryptedData) = 0
    THEN DecryptFailed("Données chiffrées invalides ou vides", << >>)
    ELSE IF encryptedFile.metadata.version > 2
    THEN DecryptFailed("Version de fichier non supportée - mise à jour requise",
                       << Event("reading", 5) >>)
    ELSE IF Len(encryptedFile.metadata.checksum) > 0
            /\ calculateSecureChecksum(encryptedFile.encryptedData,
                                       Rand(checksumSeed, 0, 16))
               # encryptedFile.metadata.checksum
    THEN DecryptFailed("Fichier corrompu - Checksum de sécurité invalide",
                       << Event("reading", 5), Event("verifying", 15) >>)
    ELSE
      Then(DecryptionStep(
               CorrectionStep(encryptedFile.encryptedData, encryptedFile.metadata),
               encryptedFile.metadata, password),
           LAMBDA decrypted :
        IF ~decrypted.ok
        THEN DecryptFailed(decrypted.error,
                           DecryptEvents40(encryptedFile.metadata) \o decrypted.events)
        ELSE
          Then(DecompressionStep(decrypted.data, encryptedFile.metadata),
               LAMBDA processedData :
            IF Len(encryptedFile.metadata.originalChecksum) > 0
               /\ calculateChecksum(processedData)
                  # encryptedFile.metadata.originalChecksum
            THEN DecryptFailed("Échec de la validation finale - données corrompues",
                               DecryptEvents90(encryptedFile.metadata, decrypted))
            ELSE DecryptOutcome(
                     TRUE, processedData,
                     IF encryptedFile.metadata.fileName # ""
                     THEN encryptedFile.metadata.fileName
                     ELSE encryptedFile.originalName,
                     "",
                     Append(DecryptEvents90(encryptedFile.metadata, decrypted),
                            Event("complete", 100)))))


\* ------------------------------------------------ the deniable container

\* The least size of a container. The program takes 1024 * 1024; the model
\* keeps the layout (header, public area, safe zone, noise) on a container
\* 512 times smaller.
MinContainerSize == 2048
DeniableHeaderSize == 256

\* getUint32(0, false) % m, digit by digit from the most significant byte.
U32Mod(bytes, m) ==
    ((((((bytes[1] % m) * 256 + bytes[2]) % m) * 256 + bytes[3]) % m) * 256
        + bytes[4]) % m

\* getUint32(0, false) > limit, for a limit below 2^24.
U32Above(bytes, limit) ==
    bytes[1] > 0 \/ (bytes[2] * 65536 + bytes[3] * 256 + bytes[4]) > limit

\* container.set(bytes, at).
WriteAt(container, bytes, at) ==
    SubSeq([k \in 1..Len(container) |->
                IF k - 1 >= at /\ k - 1 < at + Len(bytes)
                THEN bytes[k - at] ELSE container[k]],
           1, Len(container))

\* calculateHiddenPosition(password, salt, containerSize): the first four
\* bytes of SHA-256(password || salt) folded into [30%, 90%) of the container.
calculateHiddenPosition(password, salt, containerSize) ==
    Then(Sha256(password \o salt),
         LAMBDA hash :
             LET safeZoneStart == (containerSize * 3) \div 10
                 safeZoneEnd == (containerSize * 9) \div 10
             IN safeZoneStart
                    + U32Mod(SubSeq(hash, 1, 4), safeZoneEnd - safeZoneStart))

\* fillWithCryptoNoise(container, start, hiddenStart, hiddenSize): random
\* bytes, drawn in blocks of at most 65536 from call c on, from start to the
\* end of the container, except on [hiddenStart, hiddenStart + hiddenSize + 4).
fillWithCryptoNoise(container, start, hiddenStart, hiddenSize, tape, c) ==
    SubSeq([k \in 1..Len(container) |->
                IF /\ k - 1 >= start
                   /\ (k - 1 < hiddenStart \/ k - 1 >= hiddenStart + hiddenSize + 4)
                THEN RandByte(tape, c + ((k - 1 - start) \div MAX_ENTROPY_BYTES),
                              ((k - 1 - start) % MAX_ENTROPY_BYTES) + 1)
                ELSE container[k]],
           1, Len(container))

\* The 256-byte header: publicSalt at 0, publicIV at 32, hiddenSalt at 48,
\* hiddenIV at 80.
DeniableHeader(publicSalt, publicIV, hiddenSalt, hiddenIV) ==
    publicSalt \o publicIV \o Zeros(4) \o hiddenSalt \o hiddenIV \o Zeros(160)

\* The writes of createDeniableContainer into the new container, in order:
\* the header, the public ciphertext at 256, the hidden ciphertext at its
\* position, and the noise.
DeniableWrites(header, encryptedPublic, encryptedHidden, hiddenPosition, containerSize, tape) ==
    fillWithCryptoNoise(
        WriteAt(WriteAt(WriteAt(Zeros(containerSize), header, 0),
                        encryptedPublic, DeniableHeaderSize),
                encryptedHidden, hiddenPosition),
        DeniableHeaderSize + Len(encryptedPublic), hiddenPosition,
        Len(encryptedHidden), tape, 4)

\* What createDeniableContainer computes before it writes: the two
\* ciphertexts, the size of the container and the position of the hidden
\* ciphertext. The random calls 0..3 of the tape are publicSalt, hiddenSalt,
\* publicIV and hiddenIV.
DeniableParts(publicData, hiddenData, publicPassword, hiddenPassword, tape) ==
    Then2(encryptAES(publicData,
                     deriveKey(publicPassword, Rand(tape, 0, 32), "aes-256-gcm",
                               Word(DefaultIterations)).key,
                     Rand(tape, 2, 12)).encrypted,
          encryptTwofish(hiddenData,
                         deriveKey(hiddenPassword, Rand(tape, 1, 32),
                                   "twofish-256-cbc",
                                   Word(DefaultIterations)).derivedBytes,
                         Rand(tape, 3, 16)).encrypted,
          LAMBDA encryptedPublic, encryptedHidden :
              Then(Max(Len(encryptedPublic) + Len(encryptedHidden) + 1024,
                       MinContainerSize),
                   LAMBDA containerSize :
                       [encryptedPublic |-> encryptedPublic,
                        encryptedHidden |-> encryptedHidden,
                        containerSize |-> containerSize,
                        hiddenPosition |->
                            calculateHiddenPosition(hiddenPassword,
                                                    Rand(tape, 1, 32),
                                                    containerSize)]))

\* container.set(encryptedHidden, hiddenPosition) throws a RangeError when
\* the bytes do not fit between the position and the end of the container.
DeniableRangeError(parts) ==
    parts.hiddenPosition + Len(parts.encryptedHidden) > parts.containerSize

\* createDeniableContainer(publicData, hiddenData, publicPassword,
\* hiddenPassword): the container, when every write fits.
createDeniableContainer(publicData, hiddenData, publicPassword, hiddenPassword, tape) ==
    Then(DeniableParts(publicData, hiddenData, publicPassword, hiddenPassword,
                       tape),
         LAMBDA parts :
             DeniableWrites(
                 DeniableHeader(Rand(tape, 0, 32), Rand(tape, 2, 12),
                                Rand(tape, 1, 32), Rand(tape, 3, 16)),
                 parts.encryptedPublic, parts.encryptedHidden,
                 parts.hiddenPosition, parts.containerSize, tape))

NoHiddenData == "Mot de passe incorrect ou aucune donnée cachée trouvée"

\* extractHiddenData(containerData, hiddenPassword): the four bytes at the
\* hidden position are read as the big-endian size of what follows them.
ExtractHiddenAt(container, hiddenPassword, hiddenPosition) ==
    IF \/ Slice(container, hiddenPosition, hiddenPosition + 4) = << 0, 0, 0, 0 >>
       \/ U32Above(Slice(container, hiddenPosition, hiddenPosition + 4),
                   Len(container) \div 2)
    THEN Err(NoHiddenData)
    ELSE Ok(decryptTwofish(
                Slice(container, hiddenPosition + 4,
                      hiddenPosition + 4
                          + U32Mod(Slice(container, hiddenPosition,
                                         hiddenPosition + 4), 16777216)),
                deriveKey(hiddenPassword, Slice(container, 48, 80),
                          "twofish-256-cbc",
                          Word(DefaultIterations)).derivedBytes,
                Slice(container, 80, 96)))

\* An extraction that hands out the bytes of "Hello" whatever the password.
OpenExtraction(container, hiddenPassword) == Ok(<< 72, 101, 108, 108, 111 >>)

extractHiddenData(container, hiddenPassword) ==
    ExtractHiddenAt(container, hiddenPassword,
                    calculateHiddenPosition(hiddenPassword,
                                            Slice(container, 48, 80),
                                            Len(container)))

PublicPasswordWrong == "Mot de passe public incorrect"

\* The public extraction of DeniabilityComponent: everything after the header
\* goes to decryptAES under the key derived from the password and the salt of
\* the header; any failure is reported as a wrong public password.
extractPublicData(container, extractPassword) ==
    Then(decryptAES(SliceFrom(container, DeniableHeaderSize),
                    deriveKey(extractPassword, Slice(container, 0, 32),
                              "aes-256-gcm", Word(DefaultIterations)).key,
                    Slice(container, 32, 44)),
         LAMBDA decryptedPublic :
             IF decryptedPublic.ok THEN decryptedPublic
             ELSE Err(PublicPasswordWrong))

\* ---------------------------------------------------------- steganography

StegoSignature == << 222, 173, 190, 239 >>
StegoHeaderLength == 9
ImageTooSmall == "Image trop petite"
UnexpectedPixelEnd == "Fin inattendue des données de pixels"
NoStegoData == "Aucune donnée cachée trouvée ou signature invalide"
InvalidStegoSize == "Taille de données invalide"
StegoPasswordRequired == "Mot de passe requis pour déchiffrer les données cachées"

\* Three bits for every pixel.
AvailableBitsRGB(pixels) == (Len(pixels) \div 4) * 3

\* Math.floor(pixels.length / 4) * 2: two bits for every RGBA pixel.
availableBits(pixels) == (Len(pixels) \div 4) * 2

\* dataToHide: the secret itself, or with a password (a non-empty string)
\* the flag byte 1, the salt, the iv and the AES ciphertext without its tag.
\* Random calls 0 and 1 of the tape are the salt and the iv.
StegoPayload(secretData, password, tape) ==
    IF password = << >> THEN secretData
    ELSE << 1 >> \o Rand(tape, 0, 32) \o Rand(tape, 1, 12)
         \o encryptAES(secretData,
                       deriveKey(password, Rand(tape, 0, 32), "aes-256-gcm",
                                 Word(DefaultIterations)).key,
                       Rand(tape, 1, 12)).encrypted

\* totalData: the signature, the bytes of new Uint32Array([secret.length])
\* (least significant first), the encryption flag, and the secret.
StegoTotalData(secret, isEncrypted) ==
    StegoSignature \o U32LE(Len(secret)) \o << IF isEncrypted THEN 1 ELSE 0 >>
        \o secret

\* (totalData[i] >> bit) & 1 for the bits of every byte from 7 down to 0.
StegoDataBit(totalData, bitIndex) ==
    BitOf(totalData[(bitIndex \div 8) + 1], Pow2(7 - (bitIndex % 8)))

\* (noiseBits[byteIndex] >> bitPosition) & 1; the noise is random call 2.
StegoNoiseBit(tape, noiseBitIndex) ==
    BitOf(RandByte(tape, 2, (noiseBitIndex \div 8) + 1), Pow2(noiseBitIndex % 8))

\* encodeBit: (pixels[index] & 0xfc) | bit.
encodeBit(value, bit) == value - (value % 4) + bit

\* The noise loop calls encodeBit, which advances bitIndex, and then advances
\* bitIndex itself: of the positions after the data it writes those at an
\* even distance from the end of the data.
StegoNoiseWrites(after) == after % 2 = 0

\* The positions encodeBit has written when the two loops are over.
StegoWritten(totalData, capacity) ==
    { bitIndex \in 0..(capacity - 1) :
        \/ bitIndex < Len(totalData) * 8
        \/ StegoNoiseWrites(bitIndex - Len(totalData) * 8) }

\* The pixel buffer after the two loops of hideDataInImage: bit number b
\* goes to channel b % 2 of pixel b \div 2; after the data, the noise loop
\* writes every second position.
StegoEmbed(pixels, totalData, tape) ==
    SubSeq([k \in 1..Len(pixels) |->
                LET channel == (k - 1) % 4
                    bitIndex == ((k - 1) \div 4) * 2 + channel
                    after == bitIndex - Len(totalData) * 8
                IN IF channel > 1 THEN pixels[k]
                   ELSE IF after < 0
                   THEN encodeBit(pixels[k], StegoDataBit(totalData, bitIndex))
                   ELSE IF StegoNoiseWrites(after)
                   THEN encodeBit(pixels[k], StegoNoiseBit(tape, after \div 2))
                   ELSE pixels[k]],
           1, Len(pixels))

\* hideDataInImage(imageFile, secretData, password) on a cover that the
\* canvas reads and writes back without loss (an opaque PNG): the outcome
\* carries the pixel buffer as the call leaves it and the positions written.
HideChecked(pixels, totalData, capacity, tape) ==
    IF Len(totalData) * 8 > capacity
    THEN [ok |-> FALSE, pixels |-> pixels, error |-> ImageTooSmall,
          written |-> { }]
    ELSE [ok |-> TRUE, pixels |-> StegoEmbed(pixels, totalData, tape),
          error |-> "", written |-> StegoWritten(totalData, capacity)]

hideDataInImage(pixels, secretData, password, tape) ==
    HideChecked(pixels,
                StegoTotalData(StegoPayload(secretData, password, tape),
                               password # << >>),
                availableBits(pixels), tape)

\* extractBit at bitIndex, and n bytes read from it, first bit highest.
extractBit(pixels, bitIndex) ==
    pixels[(bitIndex \div 2) * 4 + (bitIndex % 2) + 1] % 2

StegoReadBytes(pixels, fromBit, n) ==
    SubSeq([i \in 1..n |->
                  extractBit(pixels, fromBit + 8 * (i - 1)) * 128
                + extractBit(pixels, fromBit + 8 * (i - 1) + 1) * 64
                + extractBit(pixels, fromBit + 8 * (i - 1) + 2) * 32
                + extractBit(pixels, fromBit + 8 * (i - 1) + 3) * 16
                + extractBit(pixels, fromBit + 8 * (i - 1) + 4) * 8
                + extractBit(pixels, fromBit + 8 * (i - 1) + 5) * 4
                + extractBit(pixels, fromBit + 8 * (i - 1) + 6) * 2
                + extractBit(pixels, fromBit + 8 * (i - 1) + 7)],
           1, n)

\* The end of extractDataFromImage: the data as it is, or decrypted with
\* salt = data[0..32), iv = data[32..44) and the rest as ciphertext.
StegoDecrypt(extractedData, isEncrypted, password) ==
    IF ~isEncrypted THEN Ok(extractedData)
    ELSE IF password = << >> THEN Err(StegoPasswordRequired)
    ELSE decryptAES(SliceFrom(extractedData, 44),
                    deriveKey(password, Slice(extractedData, 0, 32),
                              "aes-256-gcm", Word(DefaultIterations)).key,
                    Slice(extractedData, 32, 44))

\* The size is rebuilt by 32 shifts from the stored bytes, first byte
\* highest, as a signed 32-bit number; it must be positive and at most
\* pixels.length / 8.
StegoBody(pixels, password, sizeBytes, encryptionFlag) ==
    IF \/ sizeBytes[1] >= 128
       \/ sizeBytes = << 0, 0, 0, 0 >>
       \/ U32Above(sizeBytes, Len(pixels) \div 8)
    THEN Err(InvalidStegoSize)
    ELSE IF 72 + 8 * U32Mod(sizeBytes, 16777216) > availableBits(pixels)
    THEN Err(UnexpectedPixelEnd)
    ELSE StegoDecrypt(StegoReadBytes(pixels, 72, U32Mod(sizeBytes, 16777216)),
                      encryptionFlag = 1, password)

\* extractDataFromImage(imageFile, password).
extractDataFromImage(pixels, password) ==
    IF availableBits(pixels) < 32 THEN Err(UnexpectedPixelEnd)
    ELSE IF StegoReadBytes(pixels, 0, 4) # StegoSignature THEN Err(NoStegoData)
    ELSE IF availableBits(pixels) < 72 THEN Err(UnexpectedPixelEnd)
    ELSE StegoBody(pixels, password, StegoReadBytes(pixels, 32, 4),
                   StegoReadBytes(pixels, 64, 1)[1])

\* ------------------------------------------------------ timed encryption

\* The text JSON.stringify(metadata) puts before creationTime, before
\* destructionTime and before the checksum, in bytes:
\* {"version":1,"algorithm":"aes-256-gcm","creationTime":
\* ,"destructionTime":   and   ,"checksum":"
MetadataOpening ==
    << 123, 34, 118, 101, 114, 115, 105, 111, 110, 34, 58, 49, 44, 34, 97,
       108, 103, 111, 114, 105, 116, 104, 109, 34, 58, 34, 97, 101, 115, 45,
       50, 53, 54, 45, 103, 99, 109, 34, 44, 34, 99, 114, 101, 97, 116, 105,
       111, 110, 84, 105, 109, 101, 34, 58 >>
MetadataDestruction ==
    << 44, 34, 100, 101, 115, 116, 114, 117, 99, 116, 105, 111, 110, 84, 105,
       109, 101, 34, 58 >>
MetadataChecksum ==
    << 44, 34, 99, 104, 101, 99, 107, 115, 117, 109, 34, 58, 34 >>
\* The closing "} of the metadata text.
MetadataClosing == << 34, 125 >>

\* Number.prototype.toString() of an integer from 0 to 999999999.
DecimalLength(n) ==
    IF n < 10 THEN 1 ELSE IF n < 100 THEN 2 ELSE IF n < 1000 THEN 3
    ELSE IF n < 10000 THEN 4 ELSE IF n < 100000 THEN 5
    ELSE IF n < 1000000 THEN 6 ELSE IF n < 10000000 THEN 7
    ELSE IF n < 100000000 THEN 8 ELSE 9
Pow10(k) ==
    << 1, 10, 100, 1000, 10000, 100000, 1000000, 10000000, 100000000 >>[k + 1]
Decimal(n) ==
    SubSeq([i \in 1..DecimalLength(n) |->
                48 + ((n \div Pow10(DecimalLength(n) - i)) % 10)],
           1, DecimalLength(n))

\* new TextEncoder().encode(JSON.stringify(metadata)).
TimedMetadataBytes(creationTime, destructionTime, checksum) ==
    MetadataOpening \o Decimal(creationTime) \o MetadataDestruction
        \o Decimal(destructionTime) \o MetadataChecksum \o checksum
        \o MetadataClosing

\* createTimedEncryption(data, password, destructionTime) at the clock
\* reading currentTime: random calls 0 and 1 of the tape are the salt and the
\* iv; the salt of the checksum is drawn from checksumSeed. The result is
\* the metadata length as the bytes of a Uint32Array (least significant
\* first), the metadata, the salt, the iv and the ciphertext without its tag.
createTimedEncryption(data, password, destructionTime, currentTime, tape, checksumSeed) ==
    Then2(encryptAES(data,
                     deriveKey(password,
                               Rand(tape, 0, 32)
                                   \o Decimal(currentTime + destructionTime),
                               "aes-256-gcm", Word(DefaultIterations)).key,
                     Rand(tape, 1, 12)).encrypted,
          TimedMetadataBytes(currentTime, currentTime + destructionTime,
                             calculateSecureChecksum(data,
                                                     Rand(checksumSeed, 0, 16))),
          LAMBDA encrypted, metadataBytes :
              U32LE(Len(metadataBytes)) \o metadataBytes \o Rand(tape, 0, 32)
                  \o Rand(tape, 1, 12) \o encrypted)

\* JSON.parse of the metadata text. The parser below accepts the objects
\* that JSON.stringify(metadata) writes, with any unsigned integers as times
\* and any text without quotes as checksum, followed by white space only;
\* on anything else JSON.parse throws a SyntaxError.
JsonSyntaxError == [ok |-> FALSE]
StartsWithAt(bytes, at, prefix) ==
    /\ at + Len(prefix) <= Len(bytes)
    /\ SubSeq(bytes, at + 1, at + Len(prefix)) = prefix

\* The offset after the digits that start at offset at.
NumberEnd(bytes, at) ==
    CHOOSE k \in at..Len(bytes) :
        /\ k = Len(bytes) \/ bytes[k + 1] \notin 48..57
        /\ \A j \in (at + 1)..k : bytes[j] \in 48..57

\* The offset of the next quote from offset at on, or the length.
StringEnd(bytes, at) ==
    CHOOSE k \in at..Len(bytes) :
        /\ k = Len(bytes) \/ bytes[k + 1] = 34
        /\ \A j \in (at + 1)..k : bytes[j] # 34

\* The value of the digits of bytes[from..to).
NumberValue(bytes, from, to) ==
    ForRange(LAMBDA value, i : value * 10 + (bytes[i] - 48), 0, from + 1, to + 1)

JsonWhiteSpace == { 9, 10, 13, 32 }

ParseChecksum(bytes, creationTime, destructionTime, from, to) ==
    IF /\ StartsWithAt(bytes, to, MetadataClosing)
       /\ \A k \in (to + 3)..Len(bytes) : bytes[k] \in JsonWhiteSpace
    THEN [ok |-> TRUE, creationTime |-> creationTime,
          destructionTime |-> destructionTime,
          checksum |-> Slice(bytes, from, to)]
    ELSE JsonSyntaxError

ParseDestruction(bytes, creationTime, from, to) ==
    IF to > from /\ to - from < 10 /\ StartsWithAt(bytes, to, MetadataChecksum)
    THEN ParseChecksum(bytes, creationTime, NumberValue(bytes, from, to),
                       to + Len(MetadataChecksum),
                       StringEnd(bytes, to + Len(MetadataChecksum)))
    ELSE JsonSyntaxError

ParseCreation(bytes, from, to) ==
    IF to > from /\ to - from < 10 /\ StartsWithAt(bytes, to, MetadataDestruction)
    THEN ParseDestruction(bytes, NumberValue(bytes, from, to),
                          to + Len(MetadataDestruction),
                          NumberEnd(bytes, to + Len(MetadataDestruction)))
    ELSE JsonSyntaxError

ParseTimedMetadata(bytes) ==
    IF StartsWithAt(bytes, 0, MetadataOpening)
    THEN ParseCreation(bytes, Len(MetadataOpening),
                       NumberEnd(bytes, Len(MetadataOpening)))
    ELSE JsonSyntaxError

\* The offset after the metadata: 4 + getUint32(0, false), the first byte
\* highest, as far as the slices that use it can tell (they stop at the end
\* of the array).
TimedMetadataEnd(timedData) ==
    IF U32Above(Slice(timedData, 0, 4), Len(timedData)) THEN Len(timedData)
    ELSE Min(4 + U32Mod(Slice(timedData, 0, 4), 16777216), Len(timedData))

\* What a call of checkTimedDecryption comes to: it threw, or it returned
\* {expired, data, timeLeft}; derivations counts its calls of deriveKey.
TimedThrew(message, derivations) ==
    [threw |-> TRUE, error |-> message, expired |-> FALSE, hasData |-> FALSE,
     data |-> << >>, timeLeft |-> 0, derivations |-> derivations]
TimedExpired ==
    [threw |-> FALSE, error |-> "", expired |-> TRUE, hasData |-> FALSE,
     data |-> << >>, timeLeft |-> 0, derivations |-> 0]
TimedOpen(data, timeLeft) ==
    [threw |-> FALSE, error |-> "", expired |-> FALSE, hasData |-> TRUE,
     data |-> data, timeLeft |-> timeLeft, derivations |-> 1]

TimedDecryptionError == "Erreur de déchiffrement"

\* The try block: decryptAES, then the checksum of the plaintext, salted
\* afresh, against metadata.checksum.
TimedVerify(decrypted, metadata, currentTime, checksumSeed) ==
    IF ~decrypted.ok THEN TimedThrew(TimedDecryptionError, 1)
    ELSE IF calculateSecureChecksum(decrypted.data, Rand(checksumSeed, 0, 16))
                # metadata.checksum
    THEN TimedThrew(TimedDecryptionError, 1)
    ELSE TimedOpen(decrypted.data, metadata.destructionTime - currentTime)

TimedCheckAt(timedData, password, currentTime, checksumSeed, offset, metadata) ==
    IF ~metadata.ok THEN TimedThrew("SyntaxError", 0)
    ELSE IF currentTime > metadata.destructionTime THEN TimedExpired
    ELSE TimedVerify(
             decryptAES(SliceFrom(timedData, offset + 44),
                        deriveKey(password,
                                  Slice(timedData, offset, offset + 32)
                                      \o Decimal(metadata.destructionTime),
                                  "aes-256-gcm", Word(DefaultIterations)).key,
                        Slice(timedData, offset + 32, offset + 44)),
             metadata, currentTime, checksumSeed)

\* A check that hands out the bytes of "Hello" whatever it is given.
OpenTimedCheck(timedData, password, currentTime, checksumSeed) ==
    TimedOpen(<< 72, 101, 108, 108, 111 >>, 1)

\* checkTimedDecryption(timedData, password) at the clock reading currentTime.
checkTimedDecryption(timedData, password, currentTime, checksumSeed) ==
    TimedCheckAt(timedData, password, currentTime, checksumSeed,
                 TimedMetadataEnd(timedData),
                 ParseTimedMetadata(Slice(timedData, 4, TimedMetadataEnd(timedData))))

\* ------------------------------------------------------ progress observers

\* The callers' observers: none, one that returns, one that throws on every
\* call.
Observers == { "none", "listening", "throwing" }

\* callback(progress): how the call of the observer ends.
CallObserver(callback, progress) ==
    IF callback = "throwing" THEN "thrown" ELSE "returned"

\* The call of the observer without the try block around it.
UnguardedProgressCallback(callback, progress) ==
    IF callback = "none" THEN "returned" ELSE CallObserver(callback, progress)

\* safeProgressCallback(callback, progress): the call is made if there is a
\* callback, and what it throws is caught and logged.
safeProgressCallback(callback, progress) ==
    IF callback = "none" THEN "returned"
    ELSE IF CallObserver(callback, progress) = "thrown" THEN "returned"
    ELSE "returned"

ObserverException == "exception of the progress observer"

\* The first event whose report does not return, or 0: the run of encryptFile
\* or decryptFile goes on after every safeProgressCallback that returns, and
\* an exception that left one would leave the operation, whose catch block
\* reports through the same function.
FirstEscape(events, callback) ==
    IF \A i \in 1..Len(events) : safeProgressCallback(callback, events[i]) = "returned"
    THEN 0
    ELSE CHOOSE i \in 1..Len(events) :
             /\ safeProgressCallback(callback, events[i]) # "returned"
             /\ \A j \in 1..(i - 1) :
                    safeProgressCallback(callback, events[j]) = "returned"

\* encryptFile(file, options, onProgress) and decryptFile(encryptedFile,
\* password, onProgress) with the observer onProgress.
ObservedEncryptFile(outcome, callback) ==
    IF FirstEscape(outcome.events, callback) = 0 THEN outcome
    ELSE EncryptOutcome(FALSE, Null, ObserverException,
                        SubSeq(outcome.events, 1,
                               FirstEscape(outcome.events, callback)),
                        outcome.options)

ObservedDecryptFile(outcome, callback) ==
    IF FirstEscape(outcome.events, callback) = 0 THEN outcome
    ELSE DecryptOutcome(FALSE, << >>, "", ObserverException,
                        SubSeq(outcome.events, 1,
                               FirstEscape(outcome.events, callback)))

\* ------------------------------------------------------- deriveKey called

\* A call of deriveKey as its caller sees it: the keys, or the rejection of
\* crypto.subtle. importKey takes the encoded password of any length, the
\* empty one too, and the salt goes to PBKDF2 as it is; passwordBuffer is
\* filled with zeros after importKey, before anything can be rejected.
DeriveKeyCall(password, salt, algorithm, iterations) ==
    IF DeriveKeyRejects(iterations)
    THEN [ok |-> FALSE, error |-> "OperationError", key |-> << >>,
          derivedBytes |-> << >>, passwordBufferWiped |-> TRUE]
    ELSE Then(deriveKey(password, salt, algorithm, iterations),
              LAMBDA keys :
                  [ok |-> TRUE, error |-> "", key |-> keys.key,
                   derivedBytes |-> keys.derivedBytes,
                   passwordBufferWiped |-> TRUE])

\* ------------------------------------------------------ the file pipeline

VARIABLES
    request,     \* the file, options and password handed to encryptFile
    encryption,  \* the outcome of encryptFile, Null before the call
    held,        \* the EncryptedFile as it is held now, Null if none
    tamperedAt,  \* the offset of the byte changed in held.encryptedData, or -1
    attempt,     \* the last decryptFile call: password and outcome, or Null
    container,   \* the deniable container and what went into it, or Null
    extraction,  \* the last extraction from the container, or Null
    embedding,   \* the hideDataInImage call: cover, secret, outcome, or Null
    reading,     \* the last extractDataFromImage call, or Null
    timed,       \* the timed payload and what went into it, or Null
    timedCheck,  \* the last checkTimedDecryption call, or Null
    observed,    \* the last run with and without a throwing observer, or Null
    pieces,      \* the last fragmentFile call and its reassembly, or Null
    derivation,  \* the last deriveKey call and its outcome, or Null
    cipher,      \* the last use of one cipher of the suite: input, output, or Null
    layout,      \* the last container built from payloads of many sizes, or Null
    shared,      \* one options object and the two encryptFile calls started with it, or Null
    fill,        \* the last random fill: its operation, its size and the sizes requested, or Null
    secure,      \* the SecureString object and its encrypt() in flight, or Null
    cut,         \* the fragmentFile call in progress, pass by pass, or Null
    frame,       \* the frame of standardEncrypt as it is held now, or Null
    parsed       \* the last standardDecrypt call on the frame, or Null

fileVars == << request, encryption, held, tamperedAt, attempt >>
deniableVars == << container, extraction >>
stegoVars == << embedding, reading >>
timedVars == << timed, timedCheck >>
observerVars == << observed >>
fragmentVars == << pieces >>
deriveVars == << derivation >>
cipherVars == << cipher >>
layoutVars == << layout >>
sharedVars == << shared >>
randomVars == << fill >>
secureVars == << secure >>
loopVars == << cut >>
frameVars == << frame, parsed >>

\* What the operations of one component leave alone.
notFile ==
    << deniableVars, stegoVars, timedVars, observerVars, fragmentVars, deriveVars, cipherVars, layoutVars, sharedVars, randomVars, secureVars, loopVars, frameVars >>
notDeniable ==
    << fileVars, stegoVars, timedVars, observerVars, fragmentVars, deriveVars, cipherVars, layoutVars, sharedVars, randomVars, secureVars, loopVars, frameVars >>
notStego ==
    << fileVars, deniableVars, timedVars, observerVars, fragmentVars, deriveVars, cipherVars, layoutVars, sharedVars, randomVars, secureVars, loopVars, frameVars >>
notTimed ==
    << fileVars, deniableVars, stegoVars, observerVars, fragmentVars, deriveVars, cipherVars, layoutVars, sharedVars, randomVars, secureVars, loopVars, frameVars >>
notObserver ==
    << fileVars, deniableVars, stegoVars, timedVars, fragmentVars, deriveVars, cipherVars, layoutVars, sharedVars, randomVars, secureVars, loopVars, frameVars >>
notFragments ==
    << fileVars, deniableVars, stegoVars, timedVars, observerVars, deriveVars, cipherVars, layoutVars, sharedVars, randomVars, secureVars, loopVars, frameVars >>
notDerive ==
    << fileVars, deniableVars, stegoVars, timedVars, observerVars, fragmentVars, cipherVars, layoutVars, sharedVars, randomVars, secureVars, loopVars, frameVars >>
notCipher ==
    << fileVars, deniableVars, stegoVars, timedVars, observerVars, fragmentVars, deriveVars, layoutVars, sharedVars, randomVars, secureVars, loopVars, frameVars >>
notLayout ==
    << fileVars, deniableVars, stegoVars, timedVars, observerVars, fragmentVars, deriveVars, cipherVars, sharedVars, randomVars, secureVars, loopVars, frameVars >>
notShared ==
    << fileVars, deniableVars, stegoVars, timedVars, observerVars, fragmentVars, deriveVars, cipherVars, layoutVars, randomVars, secureVars, loopVars, frameVars >>
notRandom ==
    << fileVars, deniableVars, stegoVars, timedVars, observerVars, fragmentVars, deriveVars, cipherVars, layoutVars, sharedVars, secureVars, loopVars, frameVars >>
notSecure ==
    << fileVars, deniableVars, stegoVars, timedVars, observerVars, fragmentVars, deriveVars, cipherVars, layoutVars, sharedVars, randomVars, loopVars, frameVars >>
notLoop ==
    << fileVars, deniableVars, stegoVars, timedVars, observerVars, fragmentVars, deriveVars, cipherVars, layoutVars, sharedVars, randomVars, secureVars, frameVars >>
notFrame ==
    << fileVars, deniableVars, stegoVars, timedVars, observerVars, fragmentVars, deriveVars, cipherVars, layoutVars, sharedVars, randomVars, secureVars, loopVars >>

\* Bounds of the explored inputs.
NumTapes == 2
NumSeeds == 2
Tapes == 1..NumTapes
Seeds == 1..NumSeeds

\* Two passwords of the caller ("pw-alpha-01", "pw-bravo-02" in bytes).
PasswordA == << 112, 119, 45, 97, 108, 112, 104, 97, 45, 48, 49 >>
PasswordB == << 112, 119, 45, 98, 114, 97, 118, 111, 45, 48, 50 >>
Passwords == { PasswordA, PasswordB }

\* The payloads: "Hello" (5 bytes), a 16-byte block, and 24 bytes that
\* run-length encoding shrinks.
Hello == << 72, 101, 108, 108, 111 >>
Block16 == << 83, 101, 99, 114, 101, 116, 32, 100, 97, 116, 97, 32, 49, 50, 51, 52 >>
Runs24 == << 65, 65, 65, 65, 65, 65, 65, 65, 65, 65, 65, 65,
             66, 66, 66, 66, 66, 66, 66, 66, 66, 66, 66, 66 >>
Payloads == { Hello, Block16, Runs24 }

FragmentSize == 64

\* The option objects a caller passes.
Options(password, algorithm, paranoidMode, compressed, fragment, reedSolomon) ==
    [algorithm |-> algorithm, password |-> password, compress |-> compressed,
     fragment |-> fragment, fragmentSize |-> FragmentSize,
     paranoidMode |-> paranoidMode, reedSolomon |-> reedSolomon]

\* The calls of encryptFile that are explored: every algorithm and paranoid
\* mode on "Hello", every algorithm, error correction and fragmentation on a
\* whole block, compression and fragmentation on the compressible payload.
Requests ==
    { [data |-> Hello, options |-> Options(PasswordA, Algorithms[k], FALSE, FALSE, FALSE, FALSE)] :
        k \in 1..4 }
    \cup { [data |-> Block16, options |-> Options(PasswordA, Algorithms[k], FALSE, FALSE, FALSE, FALSE)] :
        k \in 1..4 }
    \cup { [data |-> Hello, options |-> Options(PasswordA, "aes-256-gcm", TRUE, FALSE, FALSE, FALSE)],
           [data |-> Block16, options |-> Options(PasswordA, "twofish-256-cbc", FALSE, FALSE, FALSE, TRUE)],
           [data |-> Block16, options |-> Options(PasswordA, "twofish-256-cbc", FALSE, FALSE, TRUE, FALSE)],
           [data |-> Runs24, options |-> Options(PasswordB, "twofish-256-cbc", FALSE, TRUE, TRUE, FALSE)] }

FileInit ==
    /\ request = Null
    /\ encryption = Null
    /\ held = Null
    /\ tamperedAt = 0 - 1
    /\ attempt = Null

\* encryptFile is called once; the caller keeps the file it returns. Every
\* request is explored on tape 1, the requests with error correction, whose
\* checksum comparison depends on the bytes drawn, on every tape.
EncryptFile ==
    /\ encryption = Null
    /\ \E r \in Requests, tape \in Tapes :
         /\ tape = 1 \/ r.options.reedSolomon
         /\ request' = r
         /\ encryption' = encryptFile([name |-> "a.txt", data |-> r.data],
                                      r.options, tape, tape)
         /\ held' = encryption'.file
    /\ UNCHANGED << tamperedAt, attempt, notFile >>

\* One byte of the held encryptedData is changed to another value.
TamperByte ==
    /\ held # Null
    /\ tamperedAt < 0
    /\ attempt = Null
    /\ \E i \in 1..Len(held.encryptedData), delta \in { 1 } :
         /\ held' = [held EXCEPT !.encryptedData[i] = (@ + delta) % 256]
         /\ tamperedAt' = i - 1
    /\ UNCHANGED << request, encryption, attempt, notFile >>

\* decryptFile is called on the held file.
DecryptFile ==
    /\ held # Null
    /\ attempt = Null
    /\ \E password \in Passwords, seed \in Seeds :
         attempt' = [password |-> password,
                     outcome |-> decryptFile(held, password, seed)]
    /\ UNCHANGED << request, encryption, held, tamperedAt, notFile >>

\* ------------------------------------------- the deniable container in use

PublicPayloads == { Hello, Block16 }
HiddenPayloads == { Hello, Block16, Runs24 }

DeniableInit ==
    /\ container = Null
    /\ extraction = Null

\* createDeniableContainer is called once with two different passwords.
CreateDeniableContainer ==
    /\ container = Null
    /\ \E publicData \in PublicPayloads, hiddenData \in HiddenPayloads,
          publicPassword \in Passwords, hiddenPassword \in Passwords,
          tape \in Tapes :
         /\ publicPassword # hiddenPassword
         /\ container' = [publicData |-> publicData, hiddenData |-> hiddenData,
                          publicPassword |-> publicPassword,
                          hiddenPassword |-> hiddenPassword,
                          bytes |-> createDeniableContainer(
                                        publicData, hiddenData, publicPassword,
                                        hiddenPassword, tape)]
    /\ UNCHANGED << extraction, notDeniable >>

\* The hidden extraction is run on the container with one of the passwords.
ExtractHidden ==
    /\ container # Null
    /\ extraction = Null
    /\ \E password \in Passwords :
         extraction' = [mode |-> "hidden", password |-> password,
                        outcome |-> extractHiddenData(container.bytes, password)]
    /\ UNCHANGED << container, notDeniable >>

\* The public extraction is run on the container with one of the passwords.
ExtractPublic ==
    /\ container # Null
    /\ extraction = Null
    /\ \E password \in Passwords :
         extraction' = [mode |-> "public", password |-> password,
                        outcome |-> extractPublicData(container.bytes, password)]
    /\ UNCHANGED << container, notDeniable >>

\* ------------------------------------------------- steganography in use

\* The cover images, as RGBA buffers of opaque pixels: two colourings in each
\* of three sizes, counted in pixels.
NumColourings == 2
CoverSizes == { 8, 128, 320 }
CoverPixels(size, colouring) ==
    SubSeq([k \in 1..(4 * size) |->
                IF k % 4 = 0 THEN 255 ELSE (k * (31 + 6 * colouring) + 11) % 256],
           1, 4 * size)
Covers == { CoverPixels(size, colouring) :
                size \in CoverSizes, colouring \in 1..NumColourings }

\* No password, or one of the two.
NoPassword == << >>
StegoPasswords == { NoPassword, PasswordA }

StegoInit ==
    /\ embedding = Null
    /\ reading = Null

\* hideDataInImage is called once.
HideDataInImage ==
    /\ embedding = Null
    /\ \E pixels \in Covers, secretData \in Payloads,
          password \in StegoPasswords, tape \in { 1 } :
         embedding' = [cover |-> pixels, secretData |-> secretData,
                       password |-> password,
                       outcome |-> hideDataInImage(pixels, secretData,
                                                   password, tape)]
    /\ UNCHANGED << reading, notStego >>

\* extractDataFromImage is called on the image that hideDataInImage returned.
ExtractFromStego ==
    /\ embedding # Null
    /\ embedding.outcome.ok
    /\ reading = Null
    /\ \E password \in StegoPasswords \cup Passwords :
         reading' = [source |-> "stego", password |-> password,
                     outcome |-> extractDataFromImage(embedding.outcome.pixels,
                                                      password)]
    /\ UNCHANGED << embedding, notStego >>

\* extractDataFromImage is called on the cover image itself.
ExtractFromCover ==
    /\ embedding # Null
    /\ reading = Null
    /\ \E password \in StegoPasswords :
         reading' = [source |-> "cover", password |-> password,
                     outcome |-> extractDataFromImage(embedding.cover, password)]
    /\ UNCHANGED << embedding, notStego >>

\* ------------------------------------------------ timed encryption in use

\* The clock at the creation, and the delays asked for, in milliseconds.
CreationTime == 100000
Delays == { 60000, 0, 0 - 1000 }

TimedInit ==
    /\ timed = Null
    /\ timedCheck = Null

\* createTimedEncryption is called once.
CreateTimedEncryption ==
    /\ timed = Null
    /\ \E data \in Payloads, password \in Passwords, delay \in Delays,
          tape \in Tapes :
         timed' = [data |-> data, password |-> password, delay |-> delay,
                   destructionTime |-> CreationTime + delay,
                   storedTime |-> CreationTime + delay,
                   bytes |-> createTimedEncryption(data, password, delay,
                                                   CreationTime, tape, tape)]
    /\ UNCHANGED << timedCheck, notTimed >>

\* The destruction time in the metadata of the stored bytes is replaced by
\* another one of as many digits.
ReplaceDestructionTime ==
    /\ timed # Null
    /\ timed.storedTime = timed.destructionTime
    /\ timedCheck = Null
    /\ \E other \in { timed.destructionTime + 60000, timed.destructionTime - 1 } :
         /\ DecimalLength(other) = DecimalLength(timed.destructionTime)
         /\ timed' = [timed EXCEPT
                !.storedTime = other,
                !.bytes = WriteAt(@, Decimal(other),
                                  4 + Len(MetadataOpening)
                                    + DecimalLength(CreationTime)
                                    + Len(MetadataDestruction))]
    /\ UNCHANGED << timedCheck, notTimed >>

\* checkTimedDecryption is called: at once, or around the destruction time.
CheckTimedDecryption ==
    /\ timed # Null
    /\ timedCheck = Null
    /\ \E password \in Passwords, seed \in Seeds,
          now \in { CreationTime, timed.destructionTime - 1,
                    timed.destructionTime, timed.destructionTime + 1 } :
         /\ now >= CreationTime
         /\ timedCheck' = [password |-> password, now |-> now,
                           outcome |-> checkTimedDecryption(timed.bytes, password,
                                                            now, seed)]
    /\ UNCHANGED << timed, notTimed >>

\* ------------------------------------------------- observed runs in use

ObserverInit == observed = Null

\* encryptFile is run on one request without an observer and with each
\* observer.
ObserveEncryptFile ==
    /\ observed = Null
    /\ \E r \in Requests, tape \in Tapes, callback \in Observers \ { "none" } :
         observed' =
             Then(encryptFile([name |-> "a.txt", data |-> r.data], r.options,
                              tape, tape),
                  LAMBDA outcome :
                      [operation |-> "encryptFile", callback |-> callback,
                       request |-> r, password |-> r.options.password,
                       alone |-> ObservedEncryptFile(outcome, "none"),
                       watched |-> ObservedEncryptFile(outcome, callback)])
    /\ UNCHANGED notObserver

\* decryptFile is run on the file of the observed encryption, without an
\* observer and with each observer.
ObserveDecryptFile ==
    /\ observed # Null
    /\ observed.operation = "encryptFile"
    /\ observed.alone.ok
    /\ \E password \in Passwords, seed \in Seeds,
          callback \in Observers \ { "none" } :
         observed' =
             Then(decryptFile(observed.alone.file, password, seed),
                  LAMBDA outcome :
                      [operation |-> "decryptFile", callback |-> callback,
                       request |-> observed.request, password |-> password,
                       alone |-> ObservedDecryptFile(outcome, "none"),
                       watched |-> ObservedDecryptFile(outcome, callback)])
    /\ UNCHANGED notObserver

\* ------------------------------------------------- fragmentation in use

\* Buffers of 0 to MaxFragmentData bytes and fragment sizes from 1 to
\* MaxFragmentSize.
MaxFragmentData == 12
MaxFragmentSize == 8
FragmentData(n) == SubSeq([i \in 1..n |-> (i * 53 + 7) % 256], 1, n)

FragmentInit == pieces = Null

\* fragmentFile(data, fragmentSize), then reassembleFragments on its result.
FragmentFile ==
    /\ pieces = Null
    /\ \E n \in 0..MaxFragmentData, fragmentSize \in 1..MaxFragmentSize :
         pieces' =
             Then(fragmentFile(FragmentData(n), fragmentSize),
                  LAMBDA fragments :
                      [data |-> FragmentData(n), fragmentSize |-> fragmentSize,
                       fragments |-> fragments,
                       reassembled |-> reassembleFragments(fragments)])
    /\ UNCHANGED notFragments

\* ---------------------------------------------------- deriveKey in use

\* The passwords, the empty one among them, the lengths of the salts and
\* the iteration counts deriveKey is called with.
DerivePasswords == { << >> } \cup Passwords
SaltLengths == { 0, 8, 15, 16, 32, 64 }
IterationCounts == { 0, 1, DefaultIterations }

DeriveInit == derivation = Null

\* deriveKey(password, salt, algorithm, iterations) is called once.
DeriveKey ==
    /\ derivation = Null
    /\ \E password \in DerivePasswords, saltLength \in SaltLengths,
          k \in 1..4, iterations \in IterationCounts :
         derivation' = [password |-> password,
                        salt |-> Rand(1, 0, saltLength),
                        algorithm |-> Algorithms[k],
                        iterations |-> iterations,
                        outcome |-> DeriveKeyCall(password, Rand(1, 0, saltLength),
                                                  Algorithms[k], Word(iterations))]
    /\ UNCHANGED notDerive

\* ------------------------------------------------ single-layer frames in use

\* The algorithm names a caller passes to standardEncrypt, one of them
\* unknown to it.
FrameAlgorithms == { Algorithms[k] : k \in 1..4 } \cup { "rot13" }
FramePayloads == { Hello, Block16 }

\* The bytes written over a header byte: versions, algorithm ids and iv
\* lengths outside and inside what standardDecrypt provides for.
HeaderChanges ==
    { [field |-> "version", value |-> v] : v \in { 0, 1, 3, 255 } }
    \cup { [field |-> "algorithmId", value |-> v] : v \in { 0, 5, 200 } }
    \cup { [field |-> "ivLength", value |-> v] : v \in { 0, 11, 33 } }
HeaderChangeAt(bytes, field) ==
    IF field = "version" THEN 0
    ELSE IF field = "algorithmId" THEN 1
    ELSE HeaderIvAt(bytes)

NoChange == [field |-> "none", value |-> 0]

FrameInit ==
    /\ frame = Null
    /\ parsed = Null

\* standardEncrypt(data, password, algorithm) is called once.
StandardEncrypt ==
    /\ frame = Null
    /\ \E data \in FramePayloads, algorithm \in FrameAlgorithms, tape \in Tapes :
         frame' =
             Then(standardEncrypt(data, PasswordA, algorithm, tape, 1),
                  LAMBDA result :
                      [data |-> data, password |-> PasswordA,
                       algorithm |-> algorithm, ok |-> result.ok,
                       written |-> IF result.ok THEN result.parts ELSE Null,
                       bytes |-> result.data, change |-> NoChange,
                       buffers |-> StandardEncryptBuffers(algorithm)])
    /\ UNCHANGED << parsed, notFrame >>

\* One byte of the header of the frame is overwritten.
ChangeHeader ==
    /\ frame # Null
    /\ frame.ok
    /\ frame.change = NoChange
    /\ parsed = Null
    /\ \E change \in HeaderChanges :
         /\ frame.bytes[HeaderChangeAt(frame.bytes, change.field) + 1] # change.value
         /\ frame' = [frame EXCEPT
                !.change = change,
                !.bytes[HeaderChangeAt(frame.bytes, change.field) + 1] = change.value]
    /\ UNCHANGED << parsed, notFrame >>

\* standardDecrypt(frame, password, algorithm) is called on the frame.
StandardDecrypt ==
    /\ frame # Null
    /\ frame.ok
    /\ parsed = Null
    /\ \E password \in Passwords :
         parsed' = [password |-> password,
                    header |-> StandardDecryptHeader(frame.bytes, frame.algorithm),
                    derivations |-> StandardDecryptDerivations(frame.bytes),
                    buffers |-> StandardDecryptBuffers(frame.bytes),
                    outcome |-> standardDecrypt(frame.bytes, password,
                                                frame.algorithm)]
    /\ UNCHANGED << frame, notFrame >>

\* ------------------------------------------------- the cipher suite in use

\* The ciphers a caller uses directly, the inputs (5, 16, 24 and 32 bytes)
\* and the 16-byte blocks given to the block functions.
SuiteCiphers == << "aes-256-gcm", "twofish-256-cbc", "serpent-256-cbc" >>
BlockCiphers == << "twofish-256-cbc", "serpent-256-cbc" >>
CipherInputs == Payloads \cup { Block16 \o Block16 }
CipherBlocks == { Block16, Zeros(16), SubSeq(Runs24, 5, 20) }

\* The key material deriveKey gives for a password, as the callers get it.
KeyMaterial(password) ==
    deriveKey(password, Rand(1, 0, 32), "aes-256-gcm", Word(DefaultIterations))

\* encryptAES / encryptTwofish / encryptSerpent(data, key): the iv is random.
SuiteEncrypt(algorithm, data, material, iv) ==
    IF algorithm = "aes-256-gcm" THEN encryptAES(data, material.key, iv)
    ELSE IF algorithm = "twofish-256-cbc"
    THEN encryptTwofish(data, material.derivedBytes, iv)
    ELSE encryptSerpent(data, material.derivedBytes, iv)

\* decryptAES / decryptTwofish / decryptSerpent(result.encrypted, key,
\* result.iv): the bytes returned, or the rejection of crypto.subtle.
SuiteDecrypt(algorithm, encrypted, material, iv) ==
    IF algorithm = "aes-256-gcm" THEN decryptAES(encrypted, material.key, iv)
    ELSE IF algorithm = "twofish-256-cbc"
    THEN Ok(decryptTwofish(encrypted, material.derivedBytes, iv))
    ELSE Ok(decryptSerpent(encrypted, material.derivedBytes, iv))

\* The subkeys of a block cipher from the key material.
BlockSubkeys(algorithm, material) ==
    IF algorithm = "twofish-256-cbc"
    THEN generateTwofishSubkeys(SubSeq(material.derivedBytes, 1, 32))
    ELSE generateSerpentSubkeys(SubSeq(material.derivedBytes, 33, 64))

\* twofishBlockDecrypt(twofishBlockEncrypt(B, K), K), and the same of Serpent.
BlockThereAndBack(algorithm, block, subkeys) ==
    IF algorithm = "twofish-256-cbc"
    THEN twofishBlockDecrypt(twofishBlockEncrypt(block, subkeys), subkeys)
    ELSE serpentBlockDecrypt(serpentBlockEncrypt(block, subkeys), subkeys)

CipherInit == cipher = Null

\* One of the encrypt functions is called on an input.
EncryptWithCipher ==
    /\ cipher = Null
    /\ \E k \in 1..3, data \in CipherInputs, password \in Passwords, tape \in Tapes :
         cipher' = Then(SuiteEncrypt(SuiteCiphers[k], data, KeyMaterial(password),
                                     Rand(tape, 1, IF k = 1 THEN 12 ELSE 16)),
                        LAMBDA result :
                            [call |-> "encrypt", algorithm |-> SuiteCiphers[k],
                             data |-> data, password |-> password,
                             encrypted |-> result.encrypted, iv |-> result.iv,
                             outcome |-> Null])
    /\ UNCHANGED notCipher

\* The matching decrypt function is called on result.encrypted with the same
\* key material and result.iv.
DecryptWithCipher ==
    /\ cipher # Null
    /\ cipher.call = "encrypt"
    /\ cipher' = [cipher EXCEPT
                    !.call = "decrypt",
                    !.outcome = SuiteDecrypt(cipher.algorithm, cipher.encrypted,
                                             KeyMaterial(cipher.password), cipher.iv)]
    /\ UNCHANGED notCipher

\* A 16-byte block is encrypted and decrypted by the block functions.
EncryptAndDecryptBlock ==
    /\ cipher = Null
    /\ \E k \in 1..2, block \in CipherBlocks, password \in Passwords :
         cipher' = [call |-> "block", algorithm |-> BlockCiphers[k],
                    data |-> block, password |-> password,
                    encrypted |-> << >>, iv |-> << >>,
                    outcome |-> Ok(BlockThereAndBack(
                                    BlockCiphers[k], block,
                                    BlockSubkeys(BlockCiphers[k],
                                                 KeyMaterial(password))))]
    /\ UNCHANGED notCipher

\* ------------------------------------ deniable containers of many sizes

\* Payloads of n bytes, and the sizes of the public and the hidden payload.
Filler(n) == SubSeq([i \in 1..n |-> (i * 37 + 11) % 256], 1, n)
PublicSizes == { 5, 16, 600, 1200, 2000, 3000, 5000, 7000, 7500 }
HiddenSizes == { 5, 16, 24 }

LayoutInit == layout = Null

\* createDeniableContainer is called once; the container it returns is kept
\* with the sizes and the position it was built from, a RangeError of
\* container.set as a call that returned nothing.
BuildContainer ==
    /\ layout = Null
    /\ \E publicSize \in PublicSizes, hiddenSize \in HiddenSizes,
          hiddenPassword \in Passwords, tape \in Tapes :
         layout' =
             Then(DeniableParts(Filler(publicSize), Filler(hiddenSize),
                                CHOOSE p \in Passwords : p # hiddenPassword,
                                hiddenPassword, tape),
                  LAMBDA parts :
                      [publicSize |-> publicSize, hiddenSize |-> hiddenSize,
                       hiddenPassword |-> hiddenPassword,
                       built |-> ~DeniableRangeError(parts),
                       publicCiphertextLength |-> Len(parts.encryptedPublic),
                       hiddenCiphertextLength |-> Len(parts.encryptedHidden),
                       encryptedPublic |-> parts.encryptedPublic,
                       hiddenOffset |-> parts.hiddenPosition,
                       bytes |-> IF DeniableRangeError(parts) THEN << >>
                                 ELSE createDeniableContainer(
                                          Filler(publicSize), Filler(hiddenSize),
                                          CHOOSE p \in Passwords : p # hiddenPassword,
                                          hiddenPassword, tape)])
    /\ UNCHANGED notLayout

\* ------------------------------------- one options object, two encryptFile

\* A caller hands the same options object to two calls of encryptFile. Each
\* call runs from one await to the next without interruption; between the
\* awaits the other call may run. A call reads options.compress at
\* if (options.compress), writes it after await CryptoUtils.compress, and
\* reads the object again when it builds the metadata.
SharedFiles == { Hello, Block16, Runs24 }

IdleCall(data) ==
    [file |-> [name |-> "a.txt", data |-> data], pc |-> "idle",
     requested |-> FALSE, compression |-> Null, outcome |-> Null]

SharedInit == shared = Null

\* The caller builds the options object and the two files.
ShareOptions ==
    /\ shared = Null
    /\ \E compressed \in BOOLEAN, first \in SharedFiles, second \in SharedFiles :
         shared' = [supplied |-> Options(PasswordA, "twofish-256-cbc", FALSE,
                                         compressed, FALSE, FALSE),
                    options |-> Options(PasswordA, "twofish-256-cbc", FALSE,
                                        compressed, FALSE, FALSE),
                    calls |-> << IdleCall(first), IdleCall(second) >>]
    /\ UNCHANGED notShared

\* encryptFile is called and runs up to await CryptoUtils.compress or, when
\* options.compress is false, up to the encryption.
BeginEncryptFile ==
    /\ shared # Null
    /\ \E i \in 1..2 :
         /\ shared.calls[i].pc = "idle"
         /\ shared' =
              IF EncryptFileRejection(shared.calls[i].file, shared.options) # ""
              THEN [shared EXCEPT
                      !.calls[i].pc = "done",
                      !.calls[i].outcome =
                          EncryptFailed(
                              EncryptFileRejection(shared.calls[i].file,
                                                   shared.options),
                              << >>, shared.options)]
              ELSE IF shared.options.compress
              THEN [shared EXCEPT !.calls[i].pc = "compressing",
                                  !.calls[i].requested = TRUE]
              ELSE [shared EXCEPT
                      !.calls[i].pc = "encrypting",
                      !.calls[i].compression =
                          CompressionStep(shared.calls[i].file.data,
                                          shared.options)]
    /\ UNCHANGED notShared

\* CryptoUtils.compress has resolved: the call keeps the compressed data, or
\* sets options.compress = false on the caller's object.
FinishCompression ==
    /\ shared # Null
    /\ \E i \in 1..2 :
         /\ shared.calls[i].pc = "compressing"
         /\ shared' =
              Then(CompressionStep(shared.calls[i].file.data,
                                   [shared.options EXCEPT !.compress = TRUE]),
                   LAMBDA compression :
                       [shared EXCEPT
                          !.options.compress =
                              IF compression.compress THEN @ ELSE FALSE,
                          !.calls[i].pc = "encrypting",
                          !.calls[i].compression = compression])
    /\ UNCHANGED notShared

\* The rest of encryptFile: encryption, post-processing, and the metadata,
\* built from the options object as it is then.
FinishEncryptFile ==
    /\ shared # Null
    /\ \E i \in 1..2 :
         /\ shared.calls[i].pc = "encrypting"
         /\ shared' =
              Then(EncryptFileTail(
                       shared.calls[i].file,
                       [shared.options EXCEPT
                          !.compress = shared.calls[i].requested],
                       shared.calls[i].compression, shared.options, 1, 1),
                   LAMBDA outcome :
                       [shared EXCEPT !.calls[i].pc = "done",
                                      !.calls[i].outcome = outcome])
    /\ UNCHANGED notShared

\* --------------------------------------------------- random fills in use

\* The sizes, in bytes, of the calls of crypto.getRandomValues that one
\* random fill makes.

\* fillWithCryptoNoise: while (noiseOffset < totalNoiseNeeded) a block of
\* Math.min(MAX_ENTROPY_BYTES, totalNoiseNeeded - noiseOffset) bytes.
NoiseBlockSizes(totalNoiseNeeded) ==
    SubSeq([n \in 1..((totalNoiseNeeded + MAX_ENTROPY_BYTES - 1)
                          \div MAX_ENTROPY_BYTES) |->
                Min(MAX_ENTROPY_BYTES,
                    totalNoiseNeeded - (n - 1) * MAX_ENTROPY_BYTES)],
           1, (totalNoiseNeeded + MAX_ENTROPY_BYTES - 1) \div MAX_ENTROPY_BYTES)

\* hideDataInImage: one call for noiseBits, an array of
\* Math.ceil((availableBits - bitIndex) / 8) bytes, bitIndex being the number
\* of bits of totalData; no call when the image is too small.
StegoNoiseSizes(pixelCount, totalDataLength) ==
    IF totalDataLength * 8 > pixelCount * 2 THEN << >>
    ELSE << (pixelCount * 2 - totalDataLength * 8 + 7) \div 8 >>

\* secureWipe(array): one call for the whole array.
SecureWipeSizes(length) == << length >>

\* The sizes explored: containers from the least size up to 4 MB past the
\* header and a little public data, covers from 64 pixels to 2048 x 1024,
\* buffers from 1 byte to the 500 MB encryptFile accepts.
NoiseSizes ==
    { 2 ^ k - DeniableHeaderSize - 21 : k \in 11..22 }
        \cup { MAX_ENTROPY_BYTES, MAX_ENTROPY_BYTES + 1, 2 * MAX_ENTROPY_BYTES }
PixelCounts == { 2 ^ k : k \in 6..21 }
WipeSizes ==
    { 2 ^ k : k \in 0..28 } \cup { MAX_ENTROPY_BYTES + 1, MaxFileSize }

RandomInit == fill = Null

\* fillWithCryptoNoise fills a container from start to its end.
FillWithCryptoNoise ==
    /\ fill = Null
    /\ \E totalNoiseNeeded \in NoiseSizes :
         fill' = [operation |-> "fillWithCryptoNoise",
                  size |-> totalNoiseNeeded, data |-> 0,
                  requests |-> NoiseBlockSizes(totalNoiseNeeded)]
    /\ UNCHANGED notRandom

\* hideDataInImage fills the capacity that the header and the secret leave;
\* with a password the secret comes with 45 bytes of flag, salt and iv.
FillUnusedCapacity ==
    /\ fill = Null
    /\ \E pixelCount \in PixelCounts, secretData \in Payloads,
          password \in StegoPasswords :
         fill' = [operation |-> "hideDataInImage",
                  size |-> pixelCount,
                  data |-> Len(StegoTotalData(
                                   StegoPayload(secretData, password, 1),
                                   password # << >>)),
                  requests |-> StegoNoiseSizes(
                                   pixelCount,
                                   Len(StegoTotalData(
                                           StegoPayload(secretData, password, 1),
                                           password # << >>)))]
    /\ UNCHANGED notRandom

\* secureWipe is called on a file or ciphertext buffer.
SecureWipe ==
    /\ fill = Null
    /\ \E length \in WipeSizes :
         fill' = [operation |-> "secureWipe", size |-> length, data |-> 0,
                  requests |-> SecureWipeSizes(length)]
    /\ UNCHANGED notRandom

\* ---------------------------------------------------- SecureString in use

\* this.key = null.
NoKey == << >>

\* The object when the constructor has returned: data holds the encoded
\* password, key is null, and encrypt() waits for crypto.subtle.generateKey.
NewSecureString(password, tape) ==
    [password |-> password, tape |-> tape, data |-> password, key |-> NoKey,
     pc |-> "generating", iv |-> << >>, encrypted |-> << >>,
     destroyed |-> FALSE, value |-> Null]

\* encrypt() after await generateKey: this.key = key, a random iv, and
\* crypto.subtle.encrypt is given this.data as it is at that moment.
SecureStringKeyed(object) ==
    [object EXCEPT
       !.key = Rand(object.tape, 0, 32),
       !.iv = Rand(object.tape, 1, 12),
       !.encrypted = SubtleEncrypt(Rand(object.tape, 0, 32),
                                   Rand(object.tape, 1, 12), object.data),
       !.pc = "encrypting"]

\* encrypt() after await crypto.subtle.encrypt: this.data.fill(0), then
\* this.data = [...iv, ...encrypted].
SecureStringEncrypted(object) ==
    [object EXCEPT !.data = object.iv \o object.encrypted, !.pc = "done"]

\* destroy(): this.data.fill(0) and this.key = null.
SecureStringDestroyed(object) ==
    [object EXCEPT !.data = Zeros(Len(object.data)), !.key = NoKey,
                   !.destroyed = TRUE]

\* getValue(): "" without a key, or what crypto.subtle.decrypt makes of
\* data.slice(12) under data.slice(0, 12).
SecureStringValue(object) ==
    IF object.key = NoKey THEN Ok(<< >>)
    ELSE SubtleDecrypt(object.key, Slice(object.data, 0, 12),
                       SliceFrom(object.data, 12))

SecureInit == secure = Null

\* new SecureString(password): the constructor returns while encrypt() is
\* still waiting.
ConstructSecureString ==
    /\ secure = Null
    /\ \E password \in Passwords \cup { Hello }, tape \in Tapes :
         secure' = NewSecureString(password, tape)
    /\ UNCHANGED notSecure

\* crypto.subtle.generateKey resolves and encrypt() runs on.
ResumeAfterGenerateKey ==
    /\ secure # Null
    /\ secure.pc = "generating"
    /\ secure' = SecureStringKeyed(secure)
    /\ UNCHANGED notSecure

\* crypto.subtle.encrypt resolves and encrypt() runs to its end.
ResumeAfterEncrypt ==
    /\ secure # Null
    /\ secure.pc = "encrypting"
    /\ secure' = SecureStringEncrypted(secure)
    /\ UNCHANGED notSecure

\* destroy() is called.
DestroySecureString ==
    /\ secure # Null
    /\ ~secure.destroyed
    /\ secure' = SecureStringDestroyed(secure)
    /\ UNCHANGED notSecure

\* getValue() is called and its promise settles.
GetSecureStringValue ==
    /\ secure # Null
    /\ secure' = [secure EXCEPT !.value = SecureStringValue(secure)]
    /\ UNCHANGED notSecure

\* ---------------------------------------- the loop of fragmentFile in use

\* input.slice(start, end) of a Uint8Array: a negative index counts from the
\* end, and both are clamped to the array.
JsSlice(array, start, end) ==
    LET from == IF start < 0 THEN Max(Len(array) + start, 0)
                ELSE Min(start, Len(array))
        to == IF end < 0 THEN Max(Len(array) + end, 0) ELSE Min(end, Len(array))
    IN IF to > from THEN SubSeq(array, from + 1, to) ELSE << >>

\* Buffers of up to MaxCutLength bytes, the fragment sizes a caller may pass,
\* and the number of passes the model follows exactly, which is more than any
\* loop that advances needs.
MaxCutLength == 6
CutSizes == (0 - 2)..4
MaxLoopTurns == MaxCutLength + 2

\* fragmentFile(data, fragmentSize) as it enters its loop with i = 0.
EnterFragmentLoop(caller, data, fragmentSize) ==
    [caller |-> caller, data |-> data, fragmentSize |-> fragmentSize,
     i |-> 0, fragments |-> << >>, passes |-> 0, pc |-> "looping"]

\* One pass of for (i = 0; i < input.length; i += fragmentSize). A loop still
\* running after MaxLoopTurns passes is one whose index no longer advances
\* towards input.length: from there on the model keeps the index and the
\* fragments it has and follows the passes by their parity.
FragmentLoopPass(state) ==
    IF state.passes < MaxLoopTurns
    THEN [state EXCEPT
            !.fragments = Append(@, JsSlice(state.data, state.i,
                                            Min(state.i + state.fragmentSize,
                                                Len(state.data)))),
            !.i = state.i + state.fragmentSize,
            !.passes = @ + 1]
    ELSE [state EXCEPT
            !.passes = IF @ = MaxLoopTurns THEN MaxLoopTurns + 1
                       ELSE MaxLoopTurns]

\* What follows the loop: fragmentFile returns; encryptFile puts the
\* fragments together, compares the checksums and goes on to "complete", or
\* throws and delivers "error".
AfterFragmentLoop(state) ==
    IF state.caller = "fragmentFile" THEN "returned"
    ELSE IF calculateChecksum(reassembleFragments(state.fragments))
                = calculateChecksum(state.data)
    THEN "complete"
    ELSE "error"

LoopInit == cut = Null

\* CryptoUtils.fragmentFile(data, fragmentSize) is called.
CallFragmentFile ==
    /\ cut = Null
    /\ \E n \in 0..MaxCutLength, fragmentSize \in CutSizes :
         cut' = EnterFragmentLoop("fragmentFile", FragmentData(n), fragmentSize)
    /\ UNCHANGED notLoop

\* encryptFile with fragment = true comes to
\* if (options.fragment && processedData.byteLength > options.fragmentSize).
ReachFragmentation ==
    /\ cut = Null
    /\ \E n \in 1..MaxCutLength, fragmentSize \in CutSizes :
         cut' = IF n > fragmentSize
                THEN EnterFragmentLoop("encryptFile", FragmentData(n),
                                       fragmentSize)
                ELSE [EnterFragmentLoop("encryptFile", FragmentData(n),
                                        fragmentSize)
                        EXCEPT !.pc = "complete"]
    /\ UNCHANGED notLoop

\* The loop makes one more pass.
FragmentLoopTurn ==
    /\ cut # Null
    /\ cut.pc = "looping"
    /\ cut.i < Len(cut.data)
    /\ cut' = FragmentLoopPass(cut)
    /\ UNCHANGED notLoop

\* The condition of the loop is false: the loop is left.
FragmentLoopExit ==
    /\ cut # Null
    /\ cut.pc = "looping"
    /\ ~(cut.i < Len(cut.data))
    /\ cut' = [cut EXCEPT !.pc = AfterFragmentLoop(cut)]
    /\ UNCHANGED notLoop

\* ------------------------------------------------------- specifications

vars ==
    << fileVars,
       deniableVars,
       stegoVars,
       timedVars,
       observerVars,
       fragmentVars,
       deriveVars,
       cipherVars,
       layoutVars,
       sharedVars,
       randomVars,
       secureVars,
       loopVars,
       frameVars >>

Init ==
    /\ FileInit
    /\ DeniableInit
    /\ StegoInit
    /\ TimedInit
    /\ ObserverInit
    /\ FragmentInit
    /\ DeriveInit
    /\ CipherInit
    /\ LayoutInit
    /\ SharedInit
    /\ RandomInit
    /\ SecureInit
    /\ LoopInit
    /\ FrameInit

\* The file pipeline.
Next == EncryptFile \/ TamperByte \/ DecryptFile

Spec == Init /\ [][Next]_vars

\* The deniable container.
NextDeniable == CreateDeniableContainer \/ ExtractHidden \/ ExtractPublic

SpecDeniable == Init /\ [][NextDeniable]_vars

\* ----------------------------------------------- properties of the pipeline

\* The request passes nothing but an algorithm and a password.
PlainRequest ==
    /\ ~request.options.paranoidMode
    /\ ~request.options.compress
    /\ ~request.options.fragment
    /\ ~request.options.reedSolomon

\* decryptFile was called with the password of the request on the file as
\* encryptFile returned it.
FaithfulAttempt ==
    /\ attempt # Null
    /\ tamperedAt < 0
    /\ attempt.password = request.options.password

ChecksumRejection == "Fichier corrompu - Checksum de sécurité invalide"
ValidationRejection == "Échec de la validation finale - données corrompues"

\* C1: for each of the four algorithms, decryptFile(encryptFile(P, {algorithm,
\* password}), password) succeeds and returns data equal to P.
C1_RoundTrip ==
    (FaithfulAttempt /\ PlainRequest)
        => (attempt.outcome.ok /\ attempt.outcome.data = request.data)

\* C2: decryptFile with a password other than the one of encryptFile rejects
\* and delivers no data, whatever the algorithm or mode.
C2_WrongPasswordRejects ==
    (attempt # Null /\ tamperedAt < 0
     /\ attempt.password # request.options.password)
        => (~attempt.outcome.ok /\ attempt.outcome.data = << >>)

\* C2 witness: a wrong password got past the salted checksum and was turned
\* down by the final validation of the decrypted bytes.
C2_Witness ==
    /\ attempt # Null
    /\ tamperedAt < 0
    /\ attempt.password # request.options.password
    /\ ~attempt.outcome.ok
    /\ attempt.outcome.error = ValidationRejection

C4_ParanoidRoundTrip ==
    (FaithfulAttempt /\ request.options.paranoidMode
     /\ attempt.outcome.error # ChecksumRejection)
        => (attempt.outcome.ok /\ attempt.outcome.data = request.data)

\* Steganography.
NextStego == HideDataInImage \/ ExtractFromStego \/ ExtractFromCover

SpecStego == Init /\ [][NextStego]_vars

\* Timed encryption.
NextTimed == CreateTimedEncryption \/ ReplaceDestructionTime \/ CheckTimedDecryption

SpecTimed == Init /\ [][NextTimed]_vars

\* Runs with and without a progress observer.
NextObserver == ObserveEncryptFile \/ ObserveDecryptFile

SpecObserver == Init /\ [][NextObserver]_vars

\* Fragmentation, alone and in encryptFile.
NextFragments == FragmentFile \/ EncryptFile

SpecFragments == Init /\ [][NextFragments]_vars

\* Key derivation.
NextDerive == DeriveKey

SpecDerive == Init /\ [][NextDerive]_vars

\* Single-layer frames.
NextFrame == StandardEncrypt \/ ChangeHeader \/ StandardDecrypt

SpecFrame == Init /\ [][NextFrame]_vars

\* ------------------------------------- properties of the deniable container

\* C5: extractHiddenData on createDeniableContainer(pub, hid, pwdA, pwdB)
\* with pwdB returns bytes equal to hid.
C5_HiddenRoundTrip ==
    (extraction # Null /\ extraction.mode = "hidden"
     /\ extraction.password = container.hiddenPassword)
        => (extraction.outcome.ok /\ extraction.outcome.data = container.hiddenData)

\* C6: the public extraction on the container with pwdA decrypts the public
\* area and returns bytes equal to pub.
C6_PublicRoundTrip ==
    (extraction # Null /\ extraction.mode = "public"
     /\ extraction.password = container.publicPassword)
        => (extraction.outcome.ok /\ extraction.outcome.data = container.publicData)

\* An extraction run with the password of the other payload.
SwappedExtraction ==
    /\ extraction # Null
    /\ \/ extraction.mode = "hidden" /\ extraction.password = container.publicPassword
       \/ extraction.mode = "public" /\ extraction.password = container.hiddenPassword

C8_StegoRoundTrip ==
    (reading # Null /\ reading.source = "stego"
     /\ reading.password = embedding.password)
        => (reading.outcome.ok /\ reading.outcome.data = embedding.secretData)

\* The bytes hideDataInImage has to embed: the 9-byte header and the payload,
\* which with a password is the secret and 45 bytes of flag, salt and iv.
EmbeddedLength ==
    StegoHeaderLength + Len(embedding.secretData)
        + (IF embedding.password = << >> THEN 0 ELSE 45)

\* C9: hideDataInImage rejects whenever (9 + payloadLength) * 8 exceeds
\* pixelCount * 2, and when it rejects for that reason the pixel buffer is
\* what it was.
C9_CapacityRejection ==
    embedding # Null =>
        /\ (EmbeddedLength * 8 > (Len(embedding.cover) \div 4) * 2)
              => (~embedding.outcome.ok /\ embedding.outcome.error = ImageTooSmall)
        /\ (~embedding.outcome.ok /\ embedding.outcome.error = ImageTooSmall)
              => embedding.outcome.pixels = embedding.cover

\* C9 witness: a secret that does not fit its cover has been rejected.
C9_Witness ==
    /\ embedding # Null
    /\ EmbeddedLength * 8 > (Len(embedding.cover) \div 4) * 2
    /\ ~embedding.outcome.ok
    /\ embedding.outcome.pixels = embedding.cover

\* C24: after a successful hideDataInImage every embedding slot of the cover
\* (the red and the green channel of every pixel) has been written, with a
\* bit of the header or the payload or else with a random bit, so that no
\* slot beyond the payload keeps the value of the cover, and the blue and
\* alpha channels of every pixel are unchanged.
C24_UnusedCapacityIsNoise ==
    (embedding # Null /\ embedding.outcome.ok)
        => /\ \A bitIndex \in 0..((Len(embedding.cover) \div 4) * 2 - 1) :
                  bitIndex \in embedding.outcome.written
           /\ \A k \in 1..Len(embedding.cover) :
                  ((k - 1) % 4 > 1)
                      => embedding.outcome.pixels[k] = embedding.cover[k]

\* ------------------------------------------ properties of timed encryption

\* checkTimedDecryption was called with the password of the creation on the
\* bytes as createTimedEncryption returned them.
FaithfulTimedCheck ==
    /\ timedCheck # Null
    /\ timed.storedTime = timed.destructionTime
    /\ timedCheck.password = timed.password

\* C10: checkTimedDecryption right after createTimedEncryption(P, pwd, d),
\* with pwd, returns {expired: false, data: P} when d is positive and
\* {expired: true} without data when d is negative.
C10_TimedRoundTrip ==
    (FaithfulTimedCheck /\ timedCheck.now = CreationTime)
        => /\ ~timedCheck.outcome.threw
           /\ timed.delay > 0
                => /\ ~timedCheck.outcome.expired
                   /\ timedCheck.outcome.hasData
                   /\ timedCheck.outcome.data = timed.data
           /\ timed.delay < 0
                => timedCheck.outcome.expired /\ ~timedCheck.outcome.hasData

\* C11: when now >= the stored destructionTime, checkTimedDecryption returns
\* an expired result without data, and has derived no key.
C11_ExpiredBeforeAnyDerivation ==
    (timedCheck # Null /\ timedCheck.now >= timed.storedTime)
        => /\ ~timedCheck.outcome.threw
           /\ timedCheck.outcome.expired
           /\ ~timedCheck.outcome.hasData
           /\ timedCheck.outcome.derivations = 0

WrittenTimedMetadata ==
    ParseTimedMetadata(Slice(timed.bytes, 4,
                             4 + timed.bytes[1] + 256 * timed.bytes[2]))

\* C25: every timed payload createTimedEncryption produces stores a
\* destructionTime strictly greater than its creationTime, so none is
\* produced for a zero or negative delay.
C25_DestructionAfterCreation ==
    (timed # Null /\ timed.storedTime = timed.destructionTime)
        => /\ WrittenTimedMetadata.ok
           /\ WrittenTimedMetadata.destructionTime
                  > WrittenTimedMetadata.creationTime

\* ------------------------------------------------ properties of the progress

\* The percentages of a sequence of progress events never go down.
NonDecreasing(events) ==
    \A i \in 1..(Len(events) - 1) : events[i].progress <= events[i + 1].progress

\* A successful run starts with "reading" and ends with "complete" at 100.
FramedByReadingAndComplete(events) ==
    /\ Len(events) > 0
    /\ events[1].stage = "reading"
    /\ events[Len(events)] = Event("complete", 100)

\* C13: in every run of encryptFile and of decryptFile the percentages
\* delivered are non-decreasing, and a successful run starts with "reading"
\* and ends with "complete" at 100.
C13_ProgressNeverGoesDown ==
    /\ encryption # Null
          => /\ NonDecreasing(encryption.events)
             /\ encryption.ok => FramedByReadingAndComplete(encryption.events)
    /\ attempt # Null
          => /\ NonDecreasing(attempt.outcome.events)
             /\ attempt.outcome.ok
                   => FramedByReadingAndComplete(attempt.outcome.events)

\* C14: with an observer that throws on every call, encryptFile and
\* decryptFile resolve or reject exactly as without an observer, after the
\* same steps.
C14_ThrowingObserverChangesNothing ==
    (observed # Null /\ observed.callback = "throwing")
        => observed.watched = observed.alone

\* C14 witness: decryptFile has succeeded under an observer that throws, and
\* encryptFile before it.
C14_Witness ==
    /\ observed # Null
    /\ observed.callback = "throwing"
    /\ observed.operation = "decryptFile"
    /\ observed.watched.ok
    /\ observed.watched.events[Len(observed.watched.events)].stage = "complete"

\* --------------------------------------------- properties of fragmentation

FragmentationBroken == "Erreur lors de la fragmentation - intégrité compromise"

\* C15: reassembleFragments(fragmentFile(D, n)) = D, in ceil(|D| / n)
\* fragments of at most n bytes; encryptFile with fragment set and more than
\* fragmentSize bytes to store cuts at least 2 fragments, finds the checksum
\* of the reassembled data equal to the one before the cut, and sets
\* metadata.fragmented exactly when there is more than one fragment.
C15_FragmentsReassemble ==
    /\ pieces # Null
          => /\ pieces.reassembled = pieces.data
             /\ Len(pieces.fragments)
                    = (Len(pieces.data) + pieces.fragmentSize - 1)
                          \div pieces.fragmentSize
             /\ \A k \in 1..Len(pieces.fragments) :
                    Len(pieces.fragments[k]) <= pieces.fragmentSize
    /\ encryption # Null
          => /\ encryption.error # FragmentationBroken
             /\ encryption.ok
                   => /\ (/\ request.options.fragment
                          /\ encryption.file.metadata.finalSize
                                 > request.options.fragmentSize)
                            => encryption.file.metadata.fragments >= 2
                      /\ encryption.file.metadata.fragmented
                            <=> encryption.file.metadata.fragments > 1

\* C15 witness: a buffer was cut into several fragments, the last one short,
\* and encryptFile has stored a file in more than one fragment.
C15_Witness ==
    /\ pieces # Null
    /\ Len(pieces.fragments) >= 2
    /\ Len(pieces.fragments[Len(pieces.fragments)]) < pieces.fragmentSize
    /\ encryption # Null
    /\ encryption.ok
    /\ request.options.fragment
    /\ encryption.file.metadata.fragmented
    /\ encryption.file.metadata.fragments >= 2

\* ----------------------------------------------- properties of deriveKey

\* C16: deriveKey fails with an input-validation error and derives no key
\* when the password is empty or the salt is shorter than 16 bytes.
C16_DeriveKeyValidatesInput ==
    (derivation # Null
     /\ (derivation.password = << >> \/ Len(derivation.salt) < 16))
        => /\ ~derivation.outcome.ok
           /\ derivation.outcome.error # "OperationError"
           /\ derivation.outcome.key = << >>
           /\ derivation.outcome.derivedBytes = << >>

\* ------------------------------------------ properties of single-layer frames

AllWiped(buffers) == \A k \in 1..Len(buffers) : buffers[k].wiped

\* C17: on every way out of deriveKey, standardEncrypt and standardDecrypt,
\* normal or by a thrown error, every buffer the operation made for the
\* password, the salt or the iv has been overwritten.
C17_BuffersWipedOnEveryExit ==
    /\ derivation # Null => derivation.outcome.passwordBufferWiped
    /\ frame # Null => AllWiped(frame.buffers)
    /\ parsed # Null => AllWiped(parsed.buffers)

\* The frame has a version byte other than 1 and 2, or is of version 2 with
\* an algorithm id byte other than 1, 2, 3 and 4.
UnknownVersionOrAlgorithm ==
    \/ frame.bytes[1] \notin { 1, 2 }
    \/ frame.bytes[1] = 2 /\ frame.bytes[2] \notin 1..4

\* C18: standardDecrypt rejects with a format error every frame whose
\* version is not 1 or 2 or whose algorithm id is not 1, 2, 3 or 4, and
\* derives no key for it.
C18_UnknownHeaderRejected ==
    (parsed # Null /\ UnknownVersionOrAlgorithm)
        => /\ ~parsed.outcome.ok
           /\ parsed.outcome.error \in
                  { "Version de format non supportée", "Algorithme non supporté" }
           /\ parsed.derivations = 0

\* C20: from a frame as standardEncrypt wrote it, standardDecrypt reads the
\* version, the algorithm, the iteration count, the salt, the iv and the
\* ciphertext that were written, and it is these it hands to deriveKey and
\* to the cipher.
C20_FrameParsedAsWritten ==
    (parsed # Null /\ frame.change = NoChange)
        => /\ parsed.header.version = frame.written.version
           /\ parsed.header.algorithm = frame.algorithm
           /\ getAlgorithmId(parsed.header.algorithm) = frame.written.algorithmId
           /\ parsed.header.iterations = Word(frame.written.iterations)
           /\ parsed.header.salt = frame.written.salt
           /\ parsed.header.iv = frame.written.iv
           /\ parsed.header.encrypted = frame.written.encrypted
           /\ parsed.derivations = 1

\* C20 witness: a frame of standardEncrypt has been parsed and decrypted to
\* the data it was made from.
C20_Witness ==
    /\ parsed # Null
    /\ frame.change = NoChange
    /\ parsed.header.salt = frame.written.salt
    /\ Len(parsed.header.salt) = 64
    /\ parsed.password = frame.password
    /\ parsed.outcome.ok
    /\ parsed.outcome.data = frame.data

\* --------------------------------------------- properties of error correction

\* decryptFile has reported the stage "correcting", which comes right before
\* its call of correctErrors.
ReachedCorrector ==
    \E i \in 1..Len(attempt.outcome.events) :
        attempt.outcome.events[i].stage = "correcting"

\* C19: when a byte of a file stored with error correction is changed,
\* decryptFile hands the data to correctErrors before it can reject the
\* file, and if correctErrors repairs the data the original payload is
\* returned.
C19_CorruptionReachesCorrector ==
    (attempt # Null /\ request.options.reedSolomon /\ tamperedAt >= 0
     /\ attempt.password = request.options.password)
        => /\ ReachedCorrector
           /\ correctErrors(held.encryptedData).ok
                => (attempt.outcome.ok /\ attempt.outcome.data = request.data)

\* ------------------------------------------- properties of the cipher suite

\* The cipher suite used directly.
NextCipher == EncryptWithCipher \/ DecryptWithCipher \/ EncryptAndDecryptBlock

SpecCipher == Init /\ [][NextCipher]_vars

\* C21: decrypting the output of encryptAES / encryptTwofish / encryptSerpent
\* with the same key material and the returned iv gives the input back, for
\* every input length, and a 16-byte block encrypted and then decrypted by
\* the Twofish or Serpent block functions is the block itself.
C21_CipherRoundTrip ==
    (cipher # Null /\ cipher.call \in { "decrypt", "block" })
        => (cipher.outcome.ok /\ cipher.outcome.data = cipher.data)

\* --------------------------------- properties of the layout of a container

\* Containers of many sizes.
NextLayout == BuildContainer

SpecLayout == Init /\ [][NextLayout]_vars

\* C22: in every container built, the hidden region [hiddenOffset,
\* hiddenOffset + 4 + hiddenCiphertextLength) lies inside the container and
\* is disjoint from the 256-byte header and from the public ciphertext at
\* [256, 256 + publicCiphertextLength), and hiddenOffset lies in
\* [floor(0.3 * totalLength), floor(0.9 * totalLength)).
C22_HiddenRegionApart ==
    (layout # Null /\ layout.built)
        => /\ layout.hiddenOffset + 4 + layout.hiddenCiphertextLength
                  <= Len(layout.bytes)
           /\ layout.hiddenOffset >= DeniableHeaderSize
           /\ layout.hiddenOffset
                  >= DeniableHeaderSize + layout.publicCiphertextLength
           /\ layout.hiddenOffset >= (Len(layout.bytes) * 3) \div 10
           /\ layout.hiddenOffset < (Len(layout.bytes) * 9) \div 10

\* C23: the total length of every container built is at least
\* max(2 * publicSize, hiddenSize + publicSize + the least container size).
C23_ContainerPadded ==
    (layout # Null /\ layout.built)
        => Len(layout.bytes)
               >= Max(2 * layout.publicSize,
                      layout.hiddenSize + layout.publicSize + MinContainerSize)

\* ------------------------------- properties of calls sharing their options

\* Two calls of encryptFile on one options object.
NextShared ==
    ShareOptions \/ BeginEncryptFile \/ FinishCompression \/ FinishEncryptFile

SpecShared == Init /\ [][NextShared]_vars

\* C26: when compression is requested but the compressed data is not below
\* 80 % of the file, encryptFile still succeeds and encrypts the file as it
\* is, and in every EncryptedFile that encryptFile returns
\* metadata.compressed is true exactly when the payload that was encrypted is
\* the compressed form.
C26_CompressedFlagMatchesPayload ==
    shared # Null =>
        \A i \in 1..2 :
            shared.calls[i].pc = "done" =>
                /\ shared.calls[i].outcome.ok
                /\ shared.calls[i].outcome.file.metadata.compressed
                       = shared.calls[i].compression.compress
                /\ ~shared.calls[i].compression.compress
                       => shared.calls[i].compression.data
                              = shared.calls[i].file.data

\* C28: encryptFile leaves the caller's options object as it was at the
\* call, so each of two calls started with the same object sees the options
\* the caller supplied.
C28_OptionsUnchanged ==
    shared # Null =>
        /\ shared.options = shared.supplied
        /\ \A i \in 1..2 :
               shared.calls[i].pc # "idle"
                   => shared.calls[i].requested = shared.supplied.compress

\* ------------------------------------------------ properties of random fills

\* Random fills.
NextRandom == FillWithCryptoNoise \/ FillUnusedCapacity \/ SecureWipe

SpecRandom == Init /\ [][NextRandom]_vars

\* C27: no single call of the secure random source asks for more than
\* 65,536 bytes, in the noise of a deniable container, in the noise of the
\* unused capacity of a cover, and in secureWipe of a file or ciphertext
\* buffer, for every accepted size.
C27_RandomFillsAreChunked ==
    fill # Null =>
        \A n \in 1..Len(fill.requests) : fill.requests[n] <= MAX_ENTROPY_BYTES

\* ------------------------------------------------ properties of SecureString

\* SecureString with its encrypt() in flight.
NextSecure ==
    \/ ConstructSecureString
    \/ ResumeAfterGenerateKey
    \/ ResumeAfterEncrypt
    \/ DestroySecureString
    \/ GetSecureStringValue

SpecSecure == Init /\ [][NextSecure]_vars

\* The bytes of the password are found in this.data.
HoldsPlaintext ==
    \E at \in 0..(Len(secure.data) - Len(secure.password)) :
        Slice(secure.data, at, at + Len(secure.password)) = secure.password

\* C29: in every interleaving of the encrypt() that the constructor starts
\* with destroy() and getValue(), once destroy() has returned the object
\* never again holds a key or a non-zero byte of data, and once encrypt() has
\* run to its end the bytes of the password are not in the object.
C29_DestroyedStaysEmpty ==
    secure # Null =>
        /\ secure.destroyed
               => /\ secure.key = NoKey
                  /\ \A k \in 1..Len(secure.data) : secure.data[k] = 0
        /\ secure.pc = "done" => ~HoldsPlaintext

\* ------------------------------------- properties of the loop of fragmentFile

\* The loop of fragmentFile, pass by pass; a loop that can go on does.
NextLoop ==
    CallFragmentFile \/ ReachFragmentation \/ FragmentLoopTurn \/ FragmentLoopExit

SpecLoop == Init /\ [][NextLoop]_vars /\ WF_vars(NextLoop)

\* C30: fragmentFile(data, fragmentSize) terminates for every fragmentSize,
\* 0 and negative values included, and so encryptFile with fragment = true
\* always comes to its "complete" or its "error" event.
C30_FragmentationTerminates ==
    [](cut # Null => <>(cut # Null /\ cut.pc # "looping"))

====
